---- MODULE Spec2Model ----
(***************************************************************************)
(* speckit-autopilot: the tasks.md checklist parser and mutator            *)
(* (src/utils/files.ts, shipped here inside src/src/utils/scripts.ts), the *)
(* markTaskAsComplete tool built on them, the workflow state store         *)
(* (src/utils/state.ts), calls of the mutator and of the store that race   *)
(* on one file, and the six step tools (src/tools).                        *)
(*                                                                         *)
(* A string is a sequence of one-character strings, so the regular         *)
(* expressions of the source are evaluated character by character, with    *)
(* the greedy/backtracking order of the JavaScript engine.                 *)
(***************************************************************************)
EXTENDS Integers, Sequences, FiniteSets, TLC

VARIABLES
  tasksMd,      \* the text of tasks.md
  before,       \* the text of tasks.md the last call found
  call,         \* the last call: operation, argument, outcome
  stateFile,    \* the workflow state file of the feature directory
  stateBefore,  \* the workflow state file the last call found
  files,        \* the artifacts present in the feature directory
  calls,        \* the number of calls made to the state store
  inFlight      \* the calls suspended at an await, with their locals

vars == <<tasksMd, before, call, stateFile, stateBefore, files, calls, inFlight>>

\* what an operation of one caller on the checklist leaves alone
idle == <<calls, inFlight>>

----------------------------------------------------------------------------
(* Bounds *)

MaxLines == 3

\* the number of calls made to the state store in one run
MaxCalls == 3

----------------------------------------------------------------------------
(* Characters and string primitives of the JavaScript runtime *)

\* \s of a JavaScript regular expression, restricted to the characters used
IsWs(c) == c \in {" ", "\t", "\n", "\r"}

\* \d
IsDigit(c) == c \in {"0", "1", "2", "3", "4", "5", "6", "7", "8", "9"}

\* . (no s flag): any character but a line terminator
IsDot(c) == c \notin {"\n", "\r"}

\* the character at position i, "" past either end
At(s, i) == IF i \in 1..Len(s) THEN s[i] ELSE ""

Max(S) == CHOOSE m \in S : \A k \in S : k <= m

RECURSIVE RunFrom(_, _, _)
\* length of the longest run of characters in class cls starting at i
RunFrom(s, i, cls) ==
  IF i \in 1..Len(s) /\ s[i] \in cls THEN 1 + RunFrom(s, i + 1, cls) ELSE 0

WsSet == {" ", "\t", "\n", "\r"}
DigitSet == {"0", "1", "2", "3", "4", "5", "6", "7", "8", "9"}

WsRun(s, i) == RunFrom(s, i, WsSet)
DigitRun(s, i) == RunFrom(s, i, DigitSet)

\* (.+)$ matches from i: at least one character, none a line terminator
DotPlusToEnd(s, i) ==
  /\ i >= 1
  /\ i <= Len(s)
  /\ \A k \in i..Len(s) : IsDot(s[k])

\* the literal lit occurs in s at position i
LitAt(s, i, lit) ==
  /\ i >= 1
  /\ i + Len(lit) - 1 <= Len(s)
  /\ \A k \in 1..Len(lit) : s[i + k - 1] = lit[k]

\* String.prototype.toLowerCase, on the letters used
toLowerCase(c) ==
  CASE c = "X" -> "x"
    [] c = "P" -> "p"
    [] c = "H" -> "h"
    [] c = "A" -> "a"
    [] c = "S" -> "s"
    [] c = "E" -> "e"
    [] c = "T" -> "t"
    [] c = "U" -> "u"
    [] OTHER -> c

\* a literal under the i flag
LitAtCI(s, i, lit) ==
  /\ i >= 1
  /\ i + Len(lit) - 1 <= Len(s)
  /\ \A k \in 1..Len(lit) : toLowerCase(s[i + k - 1]) = toLowerCase(lit[k])

\* String.prototype.includes
includes(s, lit) == \E i \in 1..Len(s) : LitAt(s, i, lit)

\* String.prototype.trim
trim(s) ==
  LET keep == {i \in 1..Len(s) : ~IsWs(s[i])}
  IN  IF keep = {} THEN <<>>
      ELSE SubSeq(s, CHOOSE i \in keep : \A k \in keep : i <= k, Max(keep))

\* content.split('\n'): the pieces between consecutive separators, one more
\* than there are separators
split(s) ==
  LET nl == {i \in 1..Len(s) : s[i] = "\n"}
      \* position of the k-th separator, 0 and Len(s) + 1 at the two ends
      pos(k) == IF k = 0 THEN 0
                ELSE IF k > Cardinality(nl) THEN Len(s) + 1
                ELSE CHOOSE i \in nl : Cardinality({j \in nl : j < i}) = k - 1
  IN  [k \in 1..(Cardinality(nl) + 1) |-> SubSeq(s, pos(k - 1) + 1, pos(k) - 1)]

RECURSIVE join(_)
\* lines.join('\n')
join(lines) ==
  IF Len(lines) = 0 THEN <<>>
  ELSE IF Len(lines) = 1 THEN lines[1]
  ELSE lines[1] \o <<"\n">> \o join(Tail(lines))

\* an optional value: <<>> is undefined, <<v>> is the value v
Undefined == <<>>
Some(v) == <<v>>

----------------------------------------------------------------------------
(* The three regular expressions of the checklist code *)

\* the common head  ^-\s+\[ M \]\s+T  of the two task expressions: both \s+
\* are followed by a character that is no whitespace, so each takes the
\* whole run. Returns the positions of the marker M and of the letter T, 0
\* when the head does not match.
TaskHead(line) ==
  LET w1 == WsRun(line, 2)
      pM == 2 + w1 + 1
      w2 == WsRun(line, pM + 2)
      pT == pM + 2 + w2
  IN  IF /\ At(line, 1) = "-"
         /\ w1 >= 1
         /\ At(line, pM - 1) = "["
         /\ (IsWs(At(line, pM)) \/ At(line, pM) \in {"x", "X"})
         /\ At(line, pM + 1) = "]"
         /\ w2 >= 1
         /\ At(line, pT) = "T"
      THEN [pM |-> pM, pT |-> pT]
      ELSE [pM |-> 0, pT |-> 0]

NoMatch == [matched |-> FALSE]

\* /^(-\s+\[)([\sxX])(\]\s+)(T\d+)(.+)$/ of markTaskComplete: \d+ is greedy
\* and gives digits back until (.+)$ has a character to match
markRe(line) ==
  LET h == TaskHead(line)
      dmax == DigitRun(line, h.pT + 1)
      ds == {d \in 1..dmax : DotPlusToEnd(line, h.pT + d + 1)}
  IN  IF h.pT = 0 \/ ds = {} THEN NoMatch
      ELSE LET d == Max(ds)
           IN  [matched |-> TRUE,
                g1 |-> SubSeq(line, 1, h.pM - 1),
                g2 |-> SubSeq(line, h.pM, h.pM),
                g3 |-> SubSeq(line, h.pM + 1, h.pT - 1),
                g4 |-> SubSeq(line, h.pT, h.pT + d),
                g5 |-> SubSeq(line, h.pT + d + 1, Len(line))]

\* (?:\s+\[P\]) from position p: the position after it, 0 when it fails
groupP(line, p) ==
  LET w == WsRun(line, p)
  IN  IF p >= 1 /\ w >= 1 /\ LitAt(line, p + w, <<"[", "P", "]">>)
      THEN p + w + 3 ELSE 0

\* (?:\s+\[(US\d+)\]) from position p: the position after it (0 when it
\* fails) and the captured tag
groupUS(line, p) ==
  LET w == WsRun(line, p)
      k == DigitRun(line, p + w + 3)
  IN  IF /\ p >= 1
         /\ w >= 1
         /\ LitAt(line, p + w, <<"[", "U", "S">>)
         /\ k >= 1
         /\ At(line, p + w + 3 + k) = "]"
      THEN [next |-> p + w + 3 + k + 1,
            tag |-> Some(SubSeq(line, p + w + 1, p + w + 2 + k))]
      ELSE [next |-> 0, tag |-> Undefined]

\* the final \s+(.+)$ from position p: the start of the (.+) capture, 0 when
\* it fails; \s+ is greedy and gives whitespace back until (.+) can match
tailRe(line, p) ==
  LET wmax == WsRun(line, p)
      ws == {w \in 1..wmax : DotPlusToEnd(line, p + w)}
  IN  IF p >= 1 /\ ws # {} THEN p + Max(ws) ELSE 0

\* afterId without the story group after a [P] group
afterIdStoryOnlyFirst(line, p) ==
  LET q == groupP(line, p)
      sp == groupUS(line, p)
  IN  IF q > 0 /\ tailRe(line, q) > 0
        THEN [desc |-> tailRe(line, q), story |-> Undefined]
      ELSE IF sp.next > 0 /\ tailRe(line, sp.next) > 0
        THEN [desc |-> tailRe(line, sp.next), story |-> sp.tag]
      ELSE [desc |-> tailRe(line, p), story |-> Undefined]

\* what follows the id at position p, in the order the engine tries it: each
\* optional group is first taken, then left out
afterId(line, p) ==
  LET q == groupP(line, p)
      sq == groupUS(line, q)
      sp == groupUS(line, p)
  IN  IF q > 0 /\ sq.next > 0 /\ tailRe(line, sq.next) > 0
        THEN [desc |-> tailRe(line, sq.next), story |-> sq.tag]
      ELSE IF q > 0 /\ tailRe(line, q) > 0
        THEN [desc |-> tailRe(line, q), story |-> Undefined]
      ELSE IF sp.next > 0 /\ tailRe(line, sp.next) > 0
        THEN [desc |-> tailRe(line, sp.next), story |-> sp.tag]
      ELSE [desc |-> tailRe(line, p), story |-> Undefined]

\* /^-\s+\[([\sxX])\]\s+(T\d+)(?:\s+\[P\])?(?:\s+\[(US\d+)\])?\s+(.+)$/ of
\* parseTasksMd; the captures are checked, id, story and description
taskRe(line) ==
  LET h == TaskHead(line)
      dmax == DigitRun(line, h.pT + 1)
      ds == {d \in 1..dmax : afterId(line, h.pT + d + 1).desc > 0}
  IN  IF h.pT = 0 \/ ds = {} THEN NoMatch
      ELSE LET d == Max(ds)
               a == afterId(line, h.pT + d + 1)
           IN  [matched |-> TRUE,
                checked |-> line[h.pM],
                id |-> SubSeq(line, h.pT, h.pT + d),
                story |-> a.story,
                description |-> SubSeq(line, a.desc, Len(line))]

SepSet == WsSet \cup {":"}

\* /^##\s+Phase\s+\d+[:\s]+(.+)$/i of parseTasksMd: [:\s]+ is greedy and
\* gives characters back until (.+)$ has a character to match
phaseRe(line) ==
  LET w1 == WsRun(line, 3)
      pP == 3 + w1
      w2 == WsRun(line, pP + 5)
      pD == pP + 5 + w2
      dmax == DigitRun(line, pD)
      seps(d) == {k \in 1..RunFrom(line, pD + d, SepSet) :
                    DotPlusToEnd(line, pD + d + k)}
      ds == {d \in 1..dmax : seps(d) # {}}
  IN  IF /\ LitAt(line, 1, <<"#", "#">>)
         /\ w1 >= 1
         /\ LitAtCI(line, pP, <<"P", "h", "a", "s", "e">>)
         /\ w2 >= 1
         /\ ds # {}
      THEN LET d == Max(ds)
           IN  [matched |-> TRUE,
                title |-> SubSeq(line, pD + d + Max(seps(d)), Len(line))]
      ELSE NoMatch

----------------------------------------------------------------------------
(* files.ts: parseTasksMd, markTaskComplete, getIncompleteTasks *)

\* Task comparing the checkbox with x without lowering it
TaskCaseSensitive(line, m, currentPhase) ==
  [id |-> trim(m.id),
   completed |-> (m.checked = "x"),
   description |-> trim(m.description),
   phase |-> currentPhase,
   parallel |-> includes(line, <<"[", "P", "]">>),
   story |-> IF m.story = Undefined THEN Undefined ELSE Some(trim(m.story[1]))]

\* the Task record pushed for a matching line
Task(line, m, currentPhase) ==
  [id |-> trim(m.id),
   completed |-> (toLowerCase(m.checked) = "x"),
   description |-> trim(m.description),
   phase |-> currentPhase,
   parallel |-> includes(line, <<"[", "P", "]">>),
   story |-> IF m.story = Undefined THEN Undefined ELSE Some(trim(m.story[1]))]

RECURSIVE parseLinesFirstPhase(_, _, _)
\* the loop keeping the first phase heading it meets
parseLinesFirstPhase(lines, i, currentPhase) ==
  IF i > Len(lines) THEN <<>>
  ELSE LET line == lines[i]
           phaseMatch == phaseRe(line)
           taskMatch == taskRe(line)
       IN  IF phaseMatch.matched
             THEN parseLinesFirstPhase(lines, i + 1,
                    IF currentPhase = <<>> THEN trim(phaseMatch.title)
                    ELSE currentPhase)
           ELSE IF taskMatch.matched
             THEN <<Task(line, taskMatch, currentPhase)>>
                    \o parseLinesFirstPhase(lines, i + 1, currentPhase)
           ELSE parseLinesFirstPhase(lines, i + 1, currentPhase)

RECURSIVE parseLinesResetPhase(_, _, _)
\* the loop forgetting the phase at a line that is neither heading nor task
parseLinesResetPhase(lines, i, currentPhase) ==
  IF i > Len(lines) THEN <<>>
  ELSE LET line == lines[i]
           phaseMatch == phaseRe(line)
           taskMatch == taskRe(line)
       IN  IF phaseMatch.matched
             THEN parseLinesResetPhase(lines, i + 1, trim(phaseMatch.title))
           ELSE IF taskMatch.matched
             THEN <<Task(line, taskMatch, currentPhase)>>
                    \o parseLinesResetPhase(lines, i + 1, currentPhase)
           ELSE parseLinesResetPhase(lines, i + 1, <<>>)

RECURSIVE parseLines(_, _, _)
\* the loop over the lines, from line i on with the phase seen so far
parseLines(lines, i, currentPhase) ==
  IF i > Len(lines) THEN <<>>
  ELSE LET line == lines[i]
           phaseMatch == phaseRe(line)
           taskMatch == taskRe(line)
       IN  IF phaseMatch.matched
             THEN parseLines(lines, i + 1, trim(phaseMatch.title))
           ELSE IF taskMatch.matched
             THEN <<Task(line, taskMatch, currentPhase)>>
                    \o parseLines(lines, i + 1, currentPhase)
           ELSE parseLines(lines, i + 1, currentPhase)

\* parseTasksMd on the text of the file
parseTasksMd(content) == parseLines(split(content), 1, <<>>)

\* markLine writing a lowercase x
markLineLower(line, taskId) ==
  LET taskMatch == markRe(line)
  IN  IF taskMatch.matched /\ taskMatch.g4 = taskId
      THEN taskMatch.g1 \o <<"x">> \o taskMatch.g3 \o taskMatch.g4 \o taskMatch.g5
      ELSE line

\* markLine flipping the checkbox instead of setting it
markLineToggle(line, taskId) ==
  LET taskMatch == markRe(line)
      flipped == IF taskMatch.g2 \in {<<"x">>, <<"X">>} THEN <<" ">> ELSE <<"X">>
  IN  IF taskMatch.matched /\ taskMatch.g4 = taskId
      THEN taskMatch.g1 \o flipped \o taskMatch.g3 \o taskMatch.g4 \o taskMatch.g5
      ELSE line

\* the callback of lines.map in markTaskComplete
markLine(line, taskId) ==
  LET taskMatch == markRe(line)
  IN  IF taskMatch.matched /\ taskMatch.g4 = taskId
      THEN taskMatch.g1 \o <<"X">> \o taskMatch.g3 \o taskMatch.g4 \o taskMatch.g5
      ELSE line

\* markTaskComplete stopping after the first line it rewrites
markTaskCompleteFirstOnly(content, taskId) ==
  LET lines == split(content)
      hits == {i \in 1..Len(lines) :
                 markRe(lines[i]).matched /\ markRe(lines[i]).g4 = taskId}
  IN  join([i \in 1..Len(lines) |->
              IF i \in hits /\ \A k \in hits : i <= k
              THEN markLine(lines[i], taskId) ELSE lines[i]])

\* the text markTaskComplete writes back
markTaskComplete(content, taskId) ==
  LET lines == split(content)
  IN  join([i \in 1..Len(lines) |-> markLine(lines[i], taskId)])

\* !taskId || !taskId.trim()
taskIdMissing(taskId) == taskId = <<>> \/ trim(taskId) = <<>>

\* tasks.filter(task => !task.completed)
getIncompleteTasks(content) ==
  SelectSeq(parseTasksMd(content), LAMBDA task : ~task.completed)

----------------------------------------------------------------------------
(* state.ts: the workflow state store *)

Steps == {"specify", "clarify", "plan", "tasks", "implement", "review"}

\* the state file of the feature directory: absent, holding text that is not
\* JSON, or holding the JSON text of a state
NoStateFile == [kind |-> "absent"]
CorruptStateFile == [kind |-> "corrupt"]
StateJson(state) == [kind |-> "json", state |-> state]

\* getWorkflowState: the state, or null (Undefined)
getWorkflowStateCorruptAsEmpty(file) ==
  IF file.kind = "json" THEN Some(file.state)
  ELSE IF file.kind = "corrupt"
  THEN Some([featureDir |-> "", currentStep |-> "specify",
             stepStatus |-> <<>>, metadata |-> <<>>])
  ELSE Undefined
getWorkflowState(file) ==
  IF file.kind = "json" THEN Some(file.state) ELSE Undefined

\* tasksContent.match(/^-\s+\[[\sxX]\]\s+T\d+/gm).length of speckitTasks: with
\* the m flag ^ is the start of the text or the position after a line
\* terminator, and \s+ may run over line terminators
taskCount(content) ==
  Cardinality({p \in 1..Len(content) :
    /\ p = 1 \/ content[p - 1] \in {"\n", "\r"}
    /\ LET rest == SubSeq(content, p, Len(content))
           head == TaskHead(rest)
       IN  head.pT # 0 /\ DigitRun(rest, head.pT + 1) >= 1})

\* a member handed over with the value undefined (stepData is a Partial, so
\* { planPath: undefined } is a stepData); only members that hold strings
\* are given it here
undefined == "undefined"
StringKeys == {"branchName", "specPath", "planPath", "tasksPath",
               "startedAt", "featureDescription"}

\* the members JSON.stringify writes: a member whose value is undefined is
\* left out of the text
Written(object) ==
  {k \in DOMAIN object : ~(k \in StringKeys /\ object[k] = undefined)}

\* JSON.parse(JSON.stringify(state, null, 2)): the state the written text
\* holds
stringifyDropEmpty(state) ==
  LET drop(object) ==
        [k \in {j \in Written(object) :
                  ~(j \in StringKeys /\ object[j] = "")} |-> object[k]]
  IN  [state EXCEPT
         !.stepStatus = [s \in DOMAIN @ |-> drop(@[s])],
         !.metadata = drop(@)]
stringify(state) ==
  LET drop(object) == [k \in Written(object) |-> object[k]]
  IN  [state EXCEPT
         !.stepStatus = [s \in DOMAIN @ |-> drop(@[s])],
         !.metadata = drop(@)]

\* the file setWorkflowState leaves: the whole document, replaced
setWorkflowState(state) == StateJson(stringify(state))

\* the state initWorkflowState builds and writes; now is the reading of the
\* clock, new Date().toISOString()
initWorkflowStateNoDescription(featureDir, featureDescription, now) ==
  [featureDir |-> featureDir,
   currentStep |-> "specify",
   stepStatus |-> <<>>,
   metadata |-> [startedAt |-> now, featureDescription |-> ""]]
initWorkflowState(featureDir, featureDescription, now) ==
  [featureDir |-> featureDir,
   currentStep |-> "specify",
   stepStatus |-> <<>>,
   metadata |-> [startedAt |-> now, featureDescription |-> featureDescription]]

\* {...state.stepStatus[step], ...stepData, completed: true}
mergeStepReplace(stepStatus, step, stepData) ==
  [completed |-> TRUE] @@ stepData
mergeStepDataWins(stepStatus, step, stepData) ==
  LET old == IF step \in DOMAIN stepStatus THEN stepStatus[step] ELSE <<>>
  IN  stepData @@ [completed |-> TRUE] @@ old
mergeStep(stepStatus, step, stepData) ==
  LET old == IF step \in DOMAIN stepStatus THEN stepStatus[step] ELSE <<>>
  IN  [completed |-> TRUE] @@ stepData @@ old

\* the position of a step in the pipeline
StepIndex(step) ==
  CASE step = "specify" -> 1 [] step = "clarify" -> 2 [] step = "plan" -> 3
    [] step = "tasks" -> 4 [] step = "implement" -> 5 [] step = "review" -> 6

\* the state updateWorkflowState has in hand after its read:
\* await getWorkflowState(featureDir) || await initWorkflowState(featureDir, '')
stateRead(file, featureDir, now) ==
  LET got == getWorkflowState(file)
  IN  IF got # Undefined THEN got[1] ELSE initWorkflowState(featureDir, "", now)

\* state.currentStep = step; state.stepStatus[step] = {...}
applyUpdateOnlyStep(state, step, stepData) ==
  [state EXCEPT !.currentStep = step,
                !.stepStatus = (step :> mergeStep(state.stepStatus, step, stepData))]
applyUpdate(state, step, stepData) ==
  [state EXCEPT !.currentStep = step,
                !.stepStatus = (step :> mergeStep(state.stepStatus, step, stepData))
                                 @@ state.stepStatus]

\* the state updateWorkflowState writes and returns
updateWorkflowStateForwardOnly(file, featureDir, step, stepData, now) ==
  LET state == stateRead(file, featureDir, now)
      next == applyUpdate(state, step, stepData)
  IN  IF StepIndex(step) < StepIndex(state.currentStep)
      THEN [next EXCEPT !.currentStep = state.currentStep] ELSE next
updateWorkflowStateKeepCorrupt(file, featureDir, step, stepData, now) ==
  IF file.kind = "corrupt"
  THEN initWorkflowState(featureDir, "", now)
  ELSE applyUpdate(stateRead(file, featureDir, now), step, stepData)
updateWorkflowState(file, featureDir, step, stepData, now) ==
  applyUpdate(stateRead(file, featureDir, now), step, stepData)

----------------------------------------------------------------------------
(* files.writeFile: fs.writeFile opens the file, which truncates it, and   *)
(* writes the content from position 0 in a later step; nothing makes the   *)
(* two steps of one call exclusive of the steps of another                 *)

\* tasks.md after the open
TruncatedText == <<>>

\* tasks.md after the write: the content, laid over what another call wrote
\* since the open
writeTextAppended(content, file) == file \o content
writeText(content, file) ==
  content \o SubSeq(file, Len(content) + 1, Len(file))

\* the length of JSON.stringify(state, null, 2), for a state whose step data
\* are strings next to completed
Member(indent, key, valueLength) == 1 + indent + (Len(key) + 2) + 2 + valueLength
Object(indent, n, members) ==
  IF n = 0 THEN 2 ELSE 1 + members + (n - 1) + 1 + indent + 1
ValueLength(key, value) ==
  IF key = "completed" THEN (IF value THEN 4 ELSE 5) ELSE Len(value) + 2
RECURSIVE EntryMembers(_, _)
EntryMembers(entry, keys) ==
  IF keys = {} THEN 0
  ELSE LET key == CHOOSE k \in keys : TRUE
       IN  Member(6, key, ValueLength(key, entry[key]))
             + EntryMembers(entry, keys \ {key})
EntryLength(entry) ==
  Object(4, Cardinality(DOMAIN entry), EntryMembers(entry, DOMAIN entry))
RECURSIVE StepMembers(_, _)
StepMembers(stepStatus, steps) ==
  IF steps = {} THEN 0
  ELSE LET step == CHOOSE k \in steps : TRUE
       IN  Member(4, step, EntryLength(stepStatus[step]))
             + StepMembers(stepStatus, steps \ {step})
JsonLength(state) ==
  Object(0, 4,
    Member(2, "featureDir", Len(state.featureDir) + 2)
    + Member(2, "currentStep", Len(state.currentStep) + 2)
    + Member(2, "stepStatus",
        Object(2, Cardinality(DOMAIN state.stepStatus),
               StepMembers(state.stepStatus, DOMAIN state.stepStatus)))
    + Member(2, "metadata",
        Object(2, 2,
          Member(4, "startedAt", Len(state.metadata.startedAt) + 2)
          + Member(4, "featureDescription",
                   Len(state.metadata.featureDescription) + 2))))

\* the state file after the open, and after a write that left the tail of a
\* longer document behind its own: neither parses
TruncatedStateFile == [kind |-> "empty"]
TornStateFile(length) == [kind |-> "torn", length |-> length]

\* the number of characters in the state file
FileLength(file) ==
  CASE file.kind \in {"absent", "empty"} -> 0
    [] file.kind = "json" -> JsonLength(file.state)
    [] file.kind = "torn" -> file.length

\* the state file after the write of a document, laid over what another call
\* wrote since the open
writeJson(state, file) ==
  IF FileLength(file) > JsonLength(state)
  THEN TornStateFile(FileLength(file))
  ELSE setWorkflowState(state)

----------------------------------------------------------------------------
(* The checklists the model starts from *)

Box(m) == <<"-", " ", "[", m, "]", " ">>
T1 == <<"T", "1">>
T2 == <<"T", "2">>
T3 == <<"T", "3">>
T12 == <<"T", "1", "2">>
TagP == <<" ", "[", "P", "]">>
TagUS1 == <<" ", "[", "U", "S", "1", "]">>
PhaseHead == <<"#", "#", " ", "P", "h", "a", "s", "e", " ">>

\* lines of the checklists that are mutated
MarkLines ==
  { Box(" ") \o T1 \o <<" ", "a">>,
    Box("x") \o T1 \o <<" ", "a">>,
    Box("X") \o T2 \o TagP \o TagUS1 \o <<" ", "b">>,
    <<"-", " ", " ", "[", "\t", "]", "\t">> \o T2 \o <<" ", " ", "b", " ">>,
    Box(" ") \o T12 \o <<" ", "a">>,
    Box(" ") \o T12,
    Box(" ") \o T2 \o <<"\r", " ", "b">>,
    PhaseHead \o <<"1", ":", " ", "S">>,
    <<>> }

\* lines of the checklists the tool works on
ToolLines ==
  { Box(" ") \o T1 \o <<" ", "a">>,
    Box("x") \o T2 \o <<" ", "b">>,
    Box(" ") \o T12,
    <<>> }

\* lines of the checklists the rejected calls find
RejectLines ==
  { Box(" ") \o T1 \o <<" ", "a">>,
    Box("x") \o T2 \o <<" ", "b">>,
    <<>> }

\* lines of the checklists that are parsed
ParseLines ==
  { Box(" ") \o T1 \o <<" ", "a">>,
    Box("x") \o T1 \o <<" ", "a">>,
    Box("X") \o T2 \o TagP \o TagUS1 \o <<" ", "b">>,
    Box(" ") \o T2 \o TagUS1 \o TagP \o <<" ", "b">>,
    Box(" ") \o T1 \o TagUS1,
    Box(" ") \o T1 \o <<" ", "a">> \o TagP,
    Box("\t") \o T12 \o <<" ", " ", "a", " ">>,
    Box(" ") \o T12,
    Box("y") \o T1 \o <<" ", "a">>,
    PhaseHead \o <<"1", ":", " ", "S">>,
    <<"#", "#", " ", "p", "H", "A", "S", "E", " ", "2", " ", " ", "C", " ">>,
    PhaseHead \o <<"3", ":">>,
    <<"#", " ", "T">>,
    <<>> }

\* the texts of one to MaxLines lines drawn from a set of lines
Docs(pool) ==
  UNION {{join(ls) : ls \in [1..n -> pool]} : n \in 1..MaxLines}

\* the task ids the callers pass: "" and " " are the ids the validation rejects
TaskIds == {T1, T2, T3, <<>>, <<" ">>}

FeatureDir == "specs/001-feature"

\* the artifacts of the feature directory (getFeaturePaths)
SpecPath == "spec.md"
PlanPath == "plan.md"
TasksPath == "tasks.md"

\* the feature descriptions the callers pass
Descriptions == {"Test feature", ""}

\* the partial step data the callers pass
StepDatas ==
  { [planPath |-> "/a"],
    [planPath |-> "/b"],
    [artifacts |-> <<"/b">>],
    [completed |-> FALSE] }

\* the partial step data of the racing updates
RaceDatas == { [planPath |-> "/a"], [planPath |-> "/path/to/plan.md"] }

\* lines of the checklists the racing calls find
RaceLines ==
  { Box(" ") \o T1 \o <<" ", "a">>,
    Box(" ") \o T2 \o <<" ", "b">>,
    Box("x") \o T3 \o <<" ", "c">> }

\* the two callers that race
Callers == {1, 2}

\* the texts speckitTasks writes to tasks.md: the built-in template, which
\* has headings only, a template file with two tasks, one whose only
\* task is ticked, and one with a task line that ends at its id
TasksTemplates ==
  { join(<< <<"#", " ", "T">>, <<>>, PhaseHead \o <<"1", ":", " ", "S">>, <<>> >>),
    join(<< <<"#", " ", "T">>, <<>>, PhaseHead \o <<"1", ":", " ", "S">>,
            Box(" ") \o T1 \o <<" ", "a">>, Box(" ") \o T2 \o <<" ", "b">> >>),
    join(<< <<"#", " ", "T">>, Box("x") \o T1 \o <<" ", "a">> >>),
    join(<< <<"#", " ", "T">>, Box(" ") \o T1 \o <<" ", "a">>, Box(" ") \o T12 >>) }

\* the numbers of questions speckitClarify draws from spec.md
QuestionCounts == {0, 1}

\* the readings of the clock
Instants == {"2026-01-01T00:00:00.000Z", "2026-01-02T00:00:00.000Z"}

\* the file paths the callers pass: "" is the path the validation rejects
FilePaths == {TasksPath, ""}

----------------------------------------------------------------------------
(* The operations *)

NoCall == [op |-> "none", taskId |-> <<>>, threw |-> FALSE, ret |-> <<>>]

InitMark ==
  /\ tasksMd \in Docs(MarkLines)
  /\ before = tasksMd
  /\ call = NoCall
  /\ stateFile = NoStateFile
  /\ stateBefore = stateFile
  /\ files = {TasksPath}
  /\ calls = 0
  /\ inFlight = <<>>

InitTool ==
  /\ tasksMd \in Docs(ToolLines)
  /\ before = tasksMd
  /\ call = NoCall
  /\ stateFile = NoStateFile
  /\ stateBefore = stateFile
  /\ files = {TasksPath}
  /\ calls = 0
  /\ inFlight = <<>>

InitParse ==
  /\ tasksMd \in Docs(ParseLines)
  /\ before = tasksMd
  /\ call = NoCall
  /\ stateFile = NoStateFile
  /\ stateBefore = stateFile
  /\ files = {TasksPath}
  /\ calls = 0
  /\ inFlight = <<>>

\* the call record of a call that threw: ret is the message of the error
Threw(op, taskId, message) ==
  [op |-> op, taskId |-> taskId, threw |-> TRUE, ret |-> message]

\* the error markTaskComplete throws, or Undefined when it runs to the end:
\* the two validations come first, then readFile fails on a file that is
\* not there
markTaskCompleteErrorReadFirst(filePath, taskId) ==
  IF filePath \notin files THEN Some("Failed to read file")
  ELSE IF filePath = "" THEN Some("File path is required")
  ELSE IF taskIdMissing(taskId) THEN Some("Task ID is required")
  ELSE Undefined
markTaskCompleteError(filePath, taskId) ==
  IF filePath = "" THEN Some("File path is required")
  ELSE IF taskIdMissing(taskId) THEN Some("Task ID is required")
  ELSE IF filePath \notin files THEN Some("Failed to read file")
  ELSE Undefined

\* files.markTaskComplete(filePath, taskId)
DoMarkTaskComplete(filePath, taskId) ==
  LET error == markTaskCompleteError(filePath, taskId)
  IN  /\ before' = tasksMd
      /\ stateBefore' = stateFile
      /\ IF error # Undefined
         THEN /\ call' = [filePath |-> filePath]
                            @@ Threw("markTaskComplete", taskId, error[1])
              /\ UNCHANGED <<tasksMd, stateFile, files, idle>>
         ELSE /\ tasksMd' = markTaskComplete(tasksMd, taskId)
              /\ call' = [op |-> "markTaskComplete", filePath |-> filePath,
                          taskId |-> taskId, threw |-> FALSE, ret |-> <<>>]
              /\ UNCHANGED <<stateFile, files, idle>>

\* files.parseTasksMd(path of tasks.md)
DoParseTasksMd ==
  /\ before' = tasksMd
  /\ call' = [op |-> "parseTasksMd", taskId |-> <<>>, threw |-> FALSE,
              ret |-> parseTasksMd(tasksMd)]
  /\ stateBefore' = stateFile
  /\ UNCHANGED <<tasksMd, stateFile, files, idle>>

\* files.getIncompleteTasks(path of tasks.md)
DoGetIncompleteTasks ==
  /\ before' = tasksMd
  /\ call' = [op |-> "getIncompleteTasks", taskId |-> <<>>, threw |-> FALSE,
              ret |-> getIncompleteTasks(tasksMd)]
  /\ stateBefore' = stateFile
  /\ UNCHANGED <<tasksMd, stateFile, files, idle>>

\* the number of completed records: tasks.filter(t => t.completed).length
completedCountOpen(tasks) ==
  Cardinality({i \in 1..Len(tasks) : ~tasks[i].completed})
completedCount(tasks) == Cardinality({i \in 1..Len(tasks) : tasks[i].completed})

\* the speckit_mark_task_complete tool: markTaskAsComplete of implement.ts
\* (mark, reparse, update the workflow state) inside the try/catch of the
\* request handler, which turns a throw into success: false
DoMarkTaskTool(taskId) ==
  /\ before' = tasksMd
  /\ stateBefore' = stateFile
  /\ UNCHANGED <<files, idle>>
  /\ IF taskIdMissing(taskId)
     THEN /\ call' = [op |-> "speckit_mark_task_complete", taskId |-> taskId,
                      threw |-> FALSE, ret |-> [success |-> FALSE]]
          /\ UNCHANGED <<tasksMd, stateFile>>
     ELSE LET written == markTaskComplete(tasksMd, taskId)
              tasks == parseTasksMd(written)
          IN  /\ tasksMd' = written
              /\ \E now \in Instants :
                   stateFile' = setWorkflowState(updateWorkflowState(stateFile,
                                  FeatureDir, "implement",
                                  [tasksCompleted |-> completedCount(tasks),
                                   totalTasks |-> Len(tasks)], now))
              /\ call' = [op |-> "speckit_mark_task_complete", taskId |-> taskId,
                          threw |-> FALSE, ret |-> [success |-> TRUE]]

\* implement.markTaskAsComplete(featureDir, taskId): the paths are built from
\* featureDir without touching the checklist, the id is validated, then
\* markTaskComplete, parseTasksMd and updateWorkflowState run in turn
DoMarkTaskAsComplete(taskId) ==
  LET error == IF taskIdMissing(taskId) THEN Some("Task ID is required")
               ELSE markTaskCompleteError(TasksPath, taskId)
  IN  /\ before' = tasksMd
      /\ stateBefore' = stateFile
      /\ UNCHANGED <<files, idle>>
      /\ IF error # Undefined
         THEN /\ call' = Threw("markTaskAsComplete", taskId, error[1])
              /\ UNCHANGED <<tasksMd, stateFile>>
         ELSE LET written == markTaskComplete(tasksMd, taskId)
                  tasks == parseTasksMd(written)
              IN  /\ tasksMd' = written
                  /\ \E now \in Instants :
                       stateFile' = setWorkflowState(updateWorkflowState(stateFile,
                                      FeatureDir, "implement",
                                      [tasksCompleted |-> completedCount(tasks),
                                       totalTasks |-> Len(tasks)], now))
                  /\ call' = [op |-> "markTaskAsComplete", taskId |-> taskId,
                              threw |-> FALSE, ret |-> <<>>]

\* the feature directory before the calls that may be rejected: tasks.md is
\* there or not
InitReject ==
  /\ files \in {{}, {TasksPath}}
  /\ tasksMd \in IF TasksPath \in files THEN Docs(RejectLines) ELSE {<<>>}
  /\ before = tasksMd
  /\ call = NoCall
  /\ stateFile \in {NoStateFile, CorruptStateFile}
  /\ stateBefore = stateFile
  /\ calls = 0
  /\ inFlight = <<>>

NextReject ==
  \/ \E filePath \in FilePaths, taskId \in TaskIds :
       DoMarkTaskComplete(filePath, taskId)
  \/ \E taskId \in TaskIds : DoMarkTaskAsComplete(taskId)

\* the feature directory before the first call to the state store: no state
\* file, or one that does not hold JSON
InitState ==
  /\ tasksMd = <<>>
  /\ before = tasksMd
  /\ call = NoCall
  /\ stateFile \in {NoStateFile, CorruptStateFile}
  /\ stateBefore = stateFile
  /\ files = {}
  /\ calls = 0
  /\ inFlight = <<>>

\* state.initWorkflowState(featureDir, featureDescription)
DoInitWorkflowState(featureDescription, now) ==
  LET state == initWorkflowState(FeatureDir, featureDescription, now)
  IN  /\ calls < MaxCalls
      /\ calls' = calls + 1
      /\ stateBefore' = stateFile
      /\ stateFile' = setWorkflowState(state)
      /\ call' = [op |-> "initWorkflowState",
                  featureDescription |-> featureDescription, now |-> now,
                  threw |-> FALSE, ret |-> state]
      /\ UNCHANGED <<tasksMd, before, files, inFlight>>

\* state.updateWorkflowState(featureDir, step, stepData)
DoUpdateWorkflowState(step, stepData, now) ==
  LET state == updateWorkflowState(stateFile, FeatureDir, step, stepData, now)
  IN  /\ calls < MaxCalls
      /\ calls' = calls + 1
      /\ stateBefore' = stateFile
      /\ stateFile' = setWorkflowState(state)
      /\ call' = [op |-> "updateWorkflowState", step |-> step,
                  stepData |-> stepData, now |-> now,
                  threw |-> FALSE, ret |-> state]
      /\ UNCHANGED <<tasksMd, before, files, inFlight>>

\* state.getWorkflowState(featureDir): whatever fails inside is caught
DoGetWorkflowState ==
  /\ stateBefore' = stateFile
  /\ call' = [op |-> "getWorkflowState", threw |-> FALSE,
              ret |-> getWorkflowState(stateFile)]
  /\ UNCHANGED <<tasksMd, before, stateFile, files, calls, inFlight>>

NextState ==
  \/ \E featureDescription \in Descriptions, now \in Instants :
       DoInitWorkflowState(featureDescription, now)
  \/ \E step \in Steps, stepData \in StepDatas, now \in Instants :
       DoUpdateWorkflowState(step, stepData, now)
  \/ DoGetWorkflowState

\* the step data and the states of a caller that writes and reads back: a
\* value, a member given as undefined, and the state of the setWorkflowState
\* test with and without a branch name
RoundTripDatas ==
  {[planPath |-> "/a"], [planPath |-> undefined], [completed |-> FALSE]}
SavedStates ==
  {[featureDir |-> FeatureDir, currentStep |-> "plan",
    stepStatus |-> [specify |-> [completed |-> TRUE, branchName |-> b]],
    metadata |-> [startedAt |-> "2026-01-01T00:00:00.000Z",
                  featureDescription |-> "Test feature"]] :
     b \in {"001-test", undefined}}

\* state.setWorkflowState(state): returns nothing
DoSetWorkflowState(state) ==
  /\ calls < MaxCalls
  /\ calls' = calls + 1
  /\ stateBefore' = stateFile
  /\ stateFile' = setWorkflowState(state)
  /\ call' = [op |-> "setWorkflowState", state |-> state, threw |-> FALSE]
  /\ UNCHANGED <<tasksMd, before, files, inFlight>>

NextRoundTrip ==
  \/ \E featureDescription \in Descriptions, now \in Instants :
       DoInitWorkflowState(featureDescription, now)
  \/ \E step \in Steps, stepData \in RoundTripDatas, now \in Instants :
       DoUpdateWorkflowState(step, stepData, now)
  \/ \E state \in SavedStates : DoSetWorkflowState(state)
  \/ DoGetWorkflowState

\* a caller that has not called yet
NotCalled == [pc |-> "idle"]
AllDone == \A c \in Callers : inFlight[c].pc = "done"

\* the feature directory before two racing updateWorkflowState calls: no
\* state file, or the one initWorkflowState wrote
InitUpdateRace ==
  /\ tasksMd = <<>>
  /\ before = tasksMd
  /\ call = NoCall
  /\ stateFile \in {NoStateFile,
                     setWorkflowState(initWorkflowState(FeatureDir, "Test feature",
                                        "2026-01-01T00:00:00.000Z"))}
  /\ stateBefore = stateFile
  /\ files = {}
  /\ calls = 0
  /\ inFlight = [c \in Callers |-> NotCalled]

\* updateWorkflowState(featureDir, step, stepData) is called: it suspends at
\* the reads of getWorkflowState
UpdateCalled(c, step, stepData) ==
  /\ inFlight[c].pc = "idle"
  /\ inFlight' = [inFlight EXCEPT ![c] =
                    [pc |-> "get", step |-> step, stepData |-> stepData]]
  /\ calls' = calls + 1
  /\ UNCHANGED <<tasksMd, before, call, stateFile, stateBefore, files>>

\* getWorkflowState resolves: with the stored state, which is updated in
\* memory and handed to setWorkflowState, or with null, and the fresh state
\* is handed to setWorkflowState by initWorkflowState
UpdateRead(c, now) ==
  LET me == inFlight[c]
      got == getWorkflowState(stateFile)
  IN  /\ me.pc = "get"
      /\ inFlight' = [inFlight EXCEPT ![c] =
           IF got # Undefined
           THEN [pc |-> "open", step |-> me.step, stepData |-> me.stepData,
                 final |-> TRUE,
                 state |-> applyUpdate(got[1], me.step, me.stepData)]
           ELSE [pc |-> "open", step |-> me.step, stepData |-> me.stepData,
                 final |-> FALSE,
                 state |-> initWorkflowState(FeatureDir, "", now)]]
      /\ UNCHANGED <<tasksMd, before, call, stateFile, stateBefore, files, calls>>

\* writeFile opens the state file
UpdateOpened(c) ==
  /\ inFlight[c].pc = "open"
  /\ stateFile' = TruncatedStateFile
  /\ inFlight' = [inFlight EXCEPT ![c].pc = "write"]
  /\ UNCHANGED <<tasksMd, before, call, stateBefore, files, calls>>

\* writeFile writes the document: after the write of initWorkflowState the
\* update is applied and the state handed to setWorkflowState; after the
\* write of updateWorkflowState the call returns
UpdateWritten(c) ==
  LET me == inFlight[c]
  IN  /\ me.pc = "write"
      /\ stateFile' = writeJson(me.state, stateFile)
      /\ call' = [op |-> "writeFile", caller |-> c, threw |-> FALSE,
                  ret |-> me.state]
      /\ inFlight' = [inFlight EXCEPT ![c] =
           IF me.final
           THEN [me EXCEPT !.pc = "done"]
           ELSE [me EXCEPT !.pc = "open", !.final = TRUE,
                           !.state = applyUpdate(me.state, me.step, me.stepData)]]
      /\ UNCHANGED <<tasksMd, before, stateBefore, files, calls>>

NextUpdateRace ==
  \/ \E c \in Callers, step \in Steps, stepData \in RaceDatas :
       UpdateCalled(c, step, stepData)
  \/ \E c \in Callers, now \in Instants : UpdateRead(c, now)
  \/ \E c \in Callers : UpdateOpened(c)
  \/ \E c \in Callers : UpdateWritten(c)

\* the checklist before two racing markTaskComplete calls
InitMarkRace ==
  /\ tasksMd \in Docs(RaceLines)
  /\ before = tasksMd
  /\ call = NoCall
  /\ stateFile = NoStateFile
  /\ stateBefore = stateFile
  /\ files = {TasksPath}
  /\ calls = 0
  /\ inFlight = [c \in Callers |-> NotCalled]

\* markTaskComplete(path of tasks.md, taskId) is called: it throws at once,
\* or suspends at readFile
MarkCalled(c, taskId) ==
  /\ inFlight[c].pc = "idle"
  /\ inFlight' = [inFlight EXCEPT ![c] =
                    IF taskIdMissing(taskId)
                    THEN [pc |-> "done", taskId |-> taskId, threw |-> TRUE]
                    ELSE [pc |-> "read", taskId |-> taskId, threw |-> FALSE]]
  /\ calls' = calls + 1
  /\ UNCHANGED <<tasksMd, before, call, stateFile, stateBefore, files>>

\* readFile resolves; the lines are rewritten in memory and handed to
\* writeFile
MarkRead(c) ==
  LET me == inFlight[c]
  IN  /\ me.pc = "read"
      /\ inFlight' = [inFlight EXCEPT ![c] =
                        [pc |-> "open", taskId |-> me.taskId, threw |-> FALSE,
                         content |-> tasksMd,
                         updated |-> markTaskComplete(tasksMd, me.taskId)]]
      /\ UNCHANGED <<tasksMd, before, call, stateFile, stateBefore, files, calls>>

\* writeFile opens tasks.md
MarkOpened(c) ==
  /\ inFlight[c].pc = "open"
  /\ tasksMd' = TruncatedText
  /\ inFlight' = [inFlight EXCEPT ![c].pc = "write"]
  /\ UNCHANGED <<before, call, stateFile, stateBefore, files, calls>>

\* writeFile writes the rewritten lines and the call returns
MarkWritten(c) ==
  LET me == inFlight[c]
  IN  /\ me.pc = "write"
      /\ tasksMd' = writeText(me.updated, tasksMd)
      /\ call' = [op |-> "writeFile", caller |-> c, threw |-> FALSE,
                  ret |-> me.updated]
      /\ inFlight' = [inFlight EXCEPT ![c].pc = "done"]
      /\ UNCHANGED <<before, stateFile, stateBefore, files, calls>>

NextMarkRace ==
  \/ \E c \in Callers, taskId \in TaskIds : MarkCalled(c, taskId)
  \/ \E c \in Callers : MarkRead(c)
  \/ \E c \in Callers : MarkOpened(c)
  \/ \E c \in Callers : MarkWritten(c)

\* the feature directory before concurrent reads of the checklist
InitParseRace == InitMarkRace

ParseOps == {"parseTasksMd", "getIncompleteTasks"}

\* parseTasksMd or getIncompleteTasks is called and suspends at readFile;
\* overlap tells whether another call was suspended at that moment
ParseCalled(c, op) ==
  /\ inFlight[c].pc \in {"idle", "done"}
  /\ calls < MaxCalls
  /\ calls' = calls + 1
  /\ inFlight' = [inFlight EXCEPT ![c] =
                    [pc |-> "read", op |-> op,
                     overlap |-> \E d \in Callers \ {c} :
                                   inFlight[d].pc = "read"]]
  /\ UNCHANGED <<tasksMd, before, call, stateFile, stateBefore, files>>

\* readFile resolves and the call returns the records it finds in the text
ParseReadTruncating(c) ==
  LET me == inFlight[c]
  IN  /\ me.pc = "read"
      /\ inFlight' = [inFlight EXCEPT ![c] =
                        [pc |-> "done", op |-> me.op, overlap |-> me.overlap,
                         ret |-> IF me.op = "parseTasksMd"
                                 THEN parseTasksMd(tasksMd)
                                 ELSE getIncompleteTasks(tasksMd)]]
      /\ tasksMd' = TruncatedText
      /\ UNCHANGED <<before, call, stateFile, stateBefore, files, calls>>
ParseRead(c) ==
  LET me == inFlight[c]
  IN  /\ me.pc = "read"
      /\ inFlight' = [inFlight EXCEPT ![c] =
                        [pc |-> "done", op |-> me.op, overlap |-> me.overlap,
                         ret |-> IF me.op = "parseTasksMd"
                                 THEN parseTasksMd(tasksMd)
                                 ELSE getIncompleteTasks(tasksMd)]]
      /\ UNCHANGED <<tasksMd, before, call, stateFile, stateBefore, files, calls>>

NextParseRace ==
  \/ \E c \in Callers, op \in ParseOps : ParseCalled(c, op)
  \/ \E c \in Callers : ParseRead(c)

\* the feature directory before the pipeline: no artifact, no state
InitSteps ==
  /\ tasksMd = <<>>
  /\ before = tasksMd
  /\ call = NoCall
  /\ stateFile = NoStateFile
  /\ stateBefore = stateFile
  /\ files = {}
  /\ calls = 0
  /\ inFlight = <<>>

\* the call record of a step tool that returned
Returned(op, step, ret) ==
  [op |-> op, step |-> step, taskId |-> <<>>, threw |-> FALSE, ret |-> ret]

\* a step tool that throws leaves everything as it was
StepThrewAfterUpdate(op, step, message) ==
  /\ call' = [step |-> step] @@ Threw(op, <<>>, message)
  /\ stateFile' = setWorkflowState(updateWorkflowState(stateFile, FeatureDir,
                     step, [completed |-> TRUE], "2026-01-01T00:00:00.000Z"))
  /\ UNCHANGED <<tasksMd, files>>
StepThrew(op, step, message) ==
  /\ call' = [step |-> step] @@ Threw(op, <<>>, message)
  /\ UNCHANGED <<tasksMd, stateFile, files>>

\* specify.speckitSpecify(featureDescription): the description is validated,
\* the feature directory made, the state initialized and spec.md written
speckitSpecify(featureDescription, now) ==
  /\ before' = tasksMd
  /\ stateBefore' = stateFile
  /\ IF featureDescription = ""
     THEN StepThrew("speckitSpecify", "specify", "Feature description is required")
     ELSE /\ stateFile' = setWorkflowState(
                             initWorkflowState(FeatureDir, featureDescription, now))
          /\ files' = files \cup {SpecPath}
          /\ call' = Returned("speckitSpecify", "specify", [success |-> TRUE])
          /\ UNCHANGED tasksMd

DoSpeckitSpecify(featureDescription, now) == speckitSpecify(featureDescription, now) /\ UNCHANGED idle

\* clarify.speckitClarify(featureDir): needs spec.md; questions is the number
\* of questions drawn from it
speckitClarify(questions, now) ==
  /\ before' = tasksMd
  /\ stateBefore' = stateFile
  /\ IF SpecPath \notin files
     THEN StepThrew("speckitClarify", "clarify",
                    "spec.md not found. Run speckit_specify first.")
     ELSE /\ stateFile' = setWorkflowState(updateWorkflowState(stateFile,
                             FeatureDir, "clarify",
                             [roundsCompleted |-> 1, questionsAsked |-> questions],
                             now))
          /\ call' = Returned("speckitClarify", "clarify",
                              [success |-> TRUE, questions |-> questions])
          /\ UNCHANGED <<tasksMd, files>>

DoSpeckitClarify(questions, now) == speckitClarify(questions, now) /\ UNCHANGED idle

\* plan.speckitPlan(featureDir): needs spec.md, writes plan.md
speckitPlan(now) ==
  /\ before' = tasksMd
  /\ stateBefore' = stateFile
  /\ IF SpecPath \notin files
     THEN StepThrew("speckitPlan", "plan", "Feature spec not found")
     ELSE /\ files' = files \cup {PlanPath}
          /\ stateFile' = setWorkflowState(updateWorkflowState(stateFile,
                             FeatureDir, "plan", [planPath |-> PlanPath], now))
          /\ call' = Returned("speckitPlan", "plan", [success |-> TRUE])
          /\ UNCHANGED tasksMd

DoSpeckitPlan(now) == speckitPlan(now) /\ UNCHANGED idle

\* tasks.speckitTasks(featureDir): needs plan.md and spec.md, writes the
\* template to tasks.md and counts its task lines
speckitTasks(template, now) ==
  /\ before' = tasksMd
  /\ stateBefore' = stateFile
  /\ IF PlanPath \notin files
     THEN StepThrew("speckitTasks", "tasks",
                    "plan.md not found. Run speckit_plan first.")
     ELSE IF SpecPath \notin files
     THEN StepThrew("speckitTasks", "tasks",
                    "spec.md not found. Run speckit_specify first.")
     ELSE /\ tasksMd' = template
          /\ files' = files \cup {TasksPath}
          /\ stateFile' = setWorkflowState(updateWorkflowState(stateFile,
                             FeatureDir, "tasks",
                             [tasksPath |-> TasksPath,
                              taskCount |-> taskCount(template)], now))
          /\ call' = Returned("speckitTasks", "tasks",
                              [success |-> TRUE, taskCount |-> taskCount(template)])

DoSpeckitTasks(template, now) == speckitTasks(template, now) /\ UNCHANGED idle

\* implement.speckitImplement(featureDir): needs tasks.md, parses it and
\* reports the counts
speckitImplement ==
  /\ before' = tasksMd
  /\ stateBefore' = stateFile
  /\ IF TasksPath \notin files
     THEN StepThrew("speckitImplement", "implement",
                    "tasks.md not found. Run speckit_tasks first.")
     ELSE LET tasks == parseTasksMd(tasksMd)
          IN  /\ call' = Returned("speckitImplement", "implement",
                                  [success |-> TRUE,
                                   tasksCompleted |-> completedCount(tasks),
                                   totalTasks |-> Len(tasks)])
              /\ UNCHANGED <<tasksMd, stateFile, files>>

DoSpeckitImplement == speckitImplement /\ UNCHANGED idle

\* review.speckitReview(featureDir): the checks of the detected stacks pass
\* or fail; nothing is ever counted as fixed
speckitReview(buildStatus, now) ==
  /\ before' = tasksMd
  /\ stateBefore' = stateFile
  /\ stateFile' = setWorkflowState(updateWorkflowState(stateFile, FeatureDir,
                     "review", [iterations |-> 1, issuesFixed |-> 0], now))
  /\ call' = Returned("speckitReview", "review",
                      [success |-> buildStatus = "pass",
                       buildStatus |-> buildStatus, issuesFixed |-> 0])
  /\ UNCHANGED <<tasksMd, files>>

DoSpeckitReview(buildStatus, now) == speckitReview(buildStatus, now) /\ UNCHANGED idle

NextSteps ==
  \/ \E featureDescription \in Descriptions, now \in Instants :
       DoSpeckitSpecify(featureDescription, now)
  \/ \E questions \in QuestionCounts, now \in Instants :
       DoSpeckitClarify(questions, now)
  \/ \E now \in Instants : DoSpeckitPlan(now)
  \/ \E template \in TasksTemplates, now \in Instants :
       DoSpeckitTasks(template, now)
  \/ DoSpeckitImplement
  \/ \E buildStatus \in {"pass", "fail"}, now \in Instants :
       DoSpeckitReview(buildStatus, now)

\* the feature directory after speckitSpecify and speckitPlan: spec.md and
\* plan.md are there, tasks.md is not
InitChecklist ==
  /\ tasksMd = <<>>
  /\ before = tasksMd
  /\ call = NoCall
  /\ \E now \in Instants :
       stateFile = setWorkflowState(updateWorkflowState(
                     setWorkflowState(initWorkflowState(FeatureDir,
                                                        "Test feature", now)),
                     FeatureDir, "plan", [planPath |-> PlanPath], now))
  /\ stateBefore = stateFile
  /\ files = {SpecPath, PlanPath}
  /\ calls = 0
  /\ inFlight = <<>>

\* the tools that write or read the checklist, called one after the other
NextChecklist ==
  \/ \E template \in TasksTemplates, now \in Instants :
       DoSpeckitTasks(template, now)
  \/ DoSpeckitImplement
  \/ \E taskId \in TaskIds : DoMarkTaskAsComplete(taskId)

----------------------------------------------------------------------------
(* autopilot.ts: speckitAutopilot, one step tool after the other *)

\* the options of a call; a limit of 0 stands for one that is 0 or not given
AutopilotOptions ==
  [skipClarify : BOOLEAN, skipReview : BOOLEAN,
   maxClarifyRounds : {0, -1}, maxReviewIterations : {0, -1}]

\* options.maxClarifyRounds || 3
orDefault(given, default) == IF given = 0 THEN default ELSE given

\* what a step tool throws when the file system or a script fails under it,
\* "" when nothing fails
MultipleSpecs == "Multiple spec directories found"
Errors == {"", "Failed to read file", MultipleSpecs}

\* error.message.includes('Multiple spec directories'), on Errors
includesMultipleSpecs(message) == message = MultipleSpecs

\* a step tool that fails on its first file operation
Failing(op, step, error) ==
  /\ before' = tasksMd
  /\ stateBefore' = stateFile
  /\ StepThrew(op, step, error)

\* const result = { success: false, featureDir: '', steps: {}, message: '' }
NewResult == [success |-> FALSE, featureDir |-> "", steps |-> <<>>,
              message |-> ""]

\* speckitAutopilot(featureDescription, options) is called: the result is
\* made and the limits are read
AutopilotCalled(featureDescription, options) ==
  /\ inFlight.pc \in {"idle", "returned"}
  /\ calls < MaxCalls
  /\ calls' = calls + 1
  /\ inFlight' = [pc |-> "specify", featureDescription |-> featureDescription,
                  options |-> options, result |-> NewResult,
                  executed |-> <<>>, incomplete |-> 0]
  /\ UNCHANGED <<tasksMd, before, call, stateFile, stateBefore, files>>

\* the step tool named step has been called
Ran(step, flight) == [flight EXCEPT !.executed = Append(@, step)]

\* result.steps[step] = stepResult
Record(step, stepResult, flight) ==
  [flight EXCEPT !.result.steps = (step :> stepResult) @@ @]

\* the catch of speckitAutopilot
CaughtSilently(flight, message) ==
  [flight EXCEPT !.pc = "returned", !.result.success = TRUE,
                 !.result.message = "Autopilot workflow orchestration completed"]
Caught(flight, message) ==
  [flight EXCEPT !.pc = "returned", !.result.success = FALSE,
                 !.result.message = "Autopilot workflow failed: " \o message]

\* result.success = true, the message and the next action, and the return
Finished(flight) ==
  LET steps == flight.result.steps
      skipReview == flight.options.skipReview
      n == flight.incomplete
      words ==
        IF steps.implement.needsImplementation
        THEN [message |-> "Autopilot workflow orchestration completed. "
                \o ToString(n) \o " task(s) need implementation. Execute all tasks automatically without interruptions."
                \o (IF skipReview THEN ""
                    ELSE " After all tasks are complete, call speckit_review to review code quality."),
              nextAction |->
                IF skipReview
                THEN "Execute implementation tasks automatically without interruptions"
                ELSE "Execute implementation tasks automatically without interruptions, then call speckit_review"]
        ELSE IF "review" \in DOMAIN steps /\ steps.review.needsFixes
        THEN [message |-> "Autopilot workflow orchestration completed. Review found issues that need fixes.",
              nextAction |-> "Fix build/compile issues and re-run speckit_review"]
        ELSE IF "clarify" \in DOMAIN steps /\ steps.clarify.needsAnswers
        THEN [message |-> "Autopilot workflow orchestration completed. Clarification questions need answers.",
              nextAction |-> "Answer clarification questions"]
        ELSE IF n = 0 /\ ~skipReview /\ "review" \notin DOMAIN steps
        THEN [message |-> "Autopilot workflow orchestration completed. All tasks are complete. Call speckit_review to review code quality and fix any issues.",
              nextAction |-> "Call speckit_review to review code quality and fix any issues"]
        ELSE IF "review" \in DOMAIN steps /\ steps.review.success
        THEN [message |-> "Autopilot workflow orchestration completed. All steps finished successfully.",
              nextAction |-> "Workflow complete"]
        ELSE IF n = 0 /\ skipReview
        THEN [message |-> "Autopilot workflow orchestration completed. All tasks are complete. Review was skipped.",
              nextAction |-> "Workflow complete"]
        ELSE [message |-> "Autopilot workflow orchestration completed",
              nextAction |-> "Workflow complete"]
  IN  [flight EXCEPT !.pc = "returned",
                     !.result = [nextAction |-> words.nextAction] @@
                                [@ EXCEPT !.success = TRUE,
                                          !.message = words.message]]

\* whether the review loop is entered and runs its one iteration, n being
\* incompleteTasksAfterImpl.length
reviewDueWhateverRemains(options, n) ==
  /\ ~options.skipReview
  /\ 0 < orDefault(options.maxReviewIterations, 10)
reviewDue(options, n) ==
  /\ ~options.skipReview
  /\ n = 0
  /\ 0 < orDefault(options.maxReviewIterations, 10)

\* Step 1: specify
AutopilotSpecify(now, error) ==
  /\ inFlight.pc = "specify"
  /\ IF error # "" THEN Failing("speckitSpecify", "specify", error)
     ELSE speckitSpecify(inFlight.featureDescription, now)
  /\ inFlight' =
       LET ran == Ran("specify", inFlight)
       IN  IF call'.threw THEN Caught(ran, call'.ret)
           ELSE LET recorded ==
                      Record("specify",
                             [success |-> call'.ret.success,
                              featureDir |-> FeatureDir],
                             [ran EXCEPT !.result.featureDir = FeatureDir])
                IN  IF ~call'.ret.success
                    THEN Caught(recorded, "Specify step failed")
                    ELSE [recorded EXCEPT !.pc =
                            IF /\ ~inFlight.options.skipClarify
                               /\ 0 < orDefault(inFlight.options.maxClarifyRounds, 3)
                            THEN "clarify" ELSE "plan"]
  /\ UNCHANGED calls

\* Step 2: clarify, one round
AutopilotClarify(questions, now, error) ==
  /\ inFlight.pc = "clarify"
  /\ IF error # "" THEN Failing("speckitClarify", "clarify", error)
     ELSE speckitClarify(questions, now)
  /\ inFlight' =
       LET ran == Ran("clarify", inFlight)
       IN  IF call'.threw THEN Caught(ran, call'.ret)
           ELSE [Record("clarify",
                        [success |-> TRUE, roundsCompleted |-> 1,
                         questionsGenerated |-> call'.ret.questions,
                         needsAnswers |-> call'.ret.questions > 0], ran)
                   EXCEPT !.pc = "plan"]
  /\ UNCHANGED calls

\* Step 3: plan, with its own catch
AutopilotPlan(now, error) ==
  /\ inFlight.pc = "plan"
  /\ IF error # "" THEN Failing("speckitPlan", "plan", error)
     ELSE speckitPlan(now)
  /\ inFlight' =
       LET ran == Ran("plan", inFlight)
       IN  IF call'.threw
           THEN IF includesMultipleSpecs(call'.ret)
                THEN Caught(Record("plan", [success |-> FALSE, planPath |-> ""],
                                   ran),
                            "Plan step failed: " \o call'.ret)
                ELSE Caught(ran, call'.ret)
           ELSE LET recorded ==
                      Record("plan", [success |-> call'.ret.success,
                                      planPath |-> PlanPath], ran)
                IN  IF ~call'.ret.success
                    THEN Caught(recorded, "Plan step failed")
                    ELSE [recorded EXCEPT !.pc = "tasks"]
  /\ UNCHANGED calls

\* Step 4: tasks, and a parse of the checklist it wrote
AutopilotTasks(template, now, error) ==
  /\ inFlight.pc = "tasks"
  /\ IF error # "" THEN Failing("speckitTasks", "tasks", error)
     ELSE speckitTasks(template, now)
  /\ inFlight' =
       LET ran == Ran("tasks", inFlight)
       IN  IF call'.threw THEN Caught(ran, call'.ret)
           ELSE LET recorded ==
                      Record("tasks",
                             [success |-> call'.ret.success,
                              taskCount |-> call'.ret.taskCount,
                              incompleteTasks |->
                                Len(getIncompleteTasks(tasksMd'))], ran)
                IN  IF ~call'.ret.success
                    THEN Caught(recorded, "Tasks step failed")
                    ELSE [recorded EXCEPT !.pc = "implement"]
  /\ UNCHANGED calls

\* Step 5: implement, a second parse, and the return when review is not run
AutopilotImplement(error) ==
  /\ inFlight.pc = "implement"
  /\ IF error # "" THEN Failing("speckitImplement", "implement", error)
     ELSE speckitImplement
  /\ inFlight' =
       LET ran == Ran("implement", inFlight)
           n == Len(getIncompleteTasks(tasksMd'))
       IN  IF call'.threw THEN Caught(ran, call'.ret)
           ELSE LET recorded ==
                      [Record("implement",
                              [success |-> TRUE,
                               tasksCompleted |-> call'.ret.tasksCompleted,
                               totalTasks |-> call'.ret.totalTasks,
                               needsImplementation |-> n > 0], ran)
                         EXCEPT !.incomplete = n]
                IN  IF reviewDue(inFlight.options, n)
                    THEN [recorded EXCEPT !.pc = "review"]
                    ELSE Finished(recorded)
  /\ UNCHANGED calls

\* Step 6: review, one iteration, and the return
AutopilotReview(buildStatus, now, error) ==
  /\ inFlight.pc = "review"
  /\ IF error # "" THEN Failing("speckitReview", "review", error)
     ELSE speckitReview(buildStatus, now)
  /\ inFlight' =
       LET ran == Ran("review", inFlight)
       IN  IF call'.threw THEN Caught(ran, call'.ret)
           ELSE Finished(Record("review",
                                [success |-> call'.ret.buildStatus = "pass",
                                 issuesFixed |-> call'.ret.issuesFixed,
                                 buildStatus |-> call'.ret.buildStatus,
                                 needsFixes |-> call'.ret.buildStatus = "fail"],
                                ran))
  /\ UNCHANGED calls

InitAutopilot ==
  /\ tasksMd = <<>>
  /\ before = tasksMd
  /\ call = NoCall
  /\ stateFile = NoStateFile
  /\ stateBefore = stateFile
  /\ files = {}
  /\ calls = 0
  /\ inFlight = NotCalled

NextAutopilot ==
  \/ \E featureDescription \in Descriptions, options \in AutopilotOptions :
       AutopilotCalled(featureDescription, options)
  \/ \E now \in Instants, error \in Errors : AutopilotSpecify(now, error)
  \/ \E questions \in QuestionCounts, now \in Instants, error \in Errors :
       AutopilotClarify(questions, now, error)
  \/ \E now \in Instants, error \in Errors : AutopilotPlan(now, error)
  \/ \E template \in TasksTemplates, now \in Instants, error \in Errors :
       AutopilotTasks(template, now, error)
  \/ \E error \in Errors : AutopilotImplement(error)
  \/ \E buildStatus \in {"pass", "fail"}, now \in Instants, error \in Errors :
       AutopilotReview(buildStatus, now, error)

NextMark == \E taskId \in TaskIds : DoMarkTaskComplete(TasksPath, taskId)

NextTool ==
  \/ \E taskId \in TaskIds : DoMarkTaskComplete(TasksPath, taskId)
  \/ \E taskId \in TaskIds : DoMarkTaskTool(taskId)

NextParse ==
  \/ DoParseTasksMd
  \/ DoGetIncompleteTasks

\* mutation of the checklist
SpecMark == InitMark /\ [][NextMark]_vars

\* the speckit_mark_task_complete tool next to direct mutation
SpecTool == InitTool /\ [][NextTool]_vars

\* parsing of the checklist
SpecParse == InitParse /\ [][NextParse]_vars

\* the workflow state store, one call at a time
SpecState == InitState /\ [][NextState]_vars
SpecRoundTrip == InitState /\ [][NextRoundTrip]_vars

\* two updateWorkflowState calls on one feature directory, each suspended at
\* its awaits
SpecUpdateRace == InitUpdateRace /\ [][NextUpdateRace]_vars

\* two markTaskComplete calls on one checklist, each suspended at its awaits
SpecMarkRace == InitMarkRace /\ [][NextMarkRace]_vars
SpecParseRace == InitParseRace /\ [][NextParseRace]_vars

\* the six step tools on one feature directory
SpecSteps == InitSteps /\ [][NextSteps]_vars
SpecChecklist == InitChecklist /\ [][NextChecklist]_vars
SpecAutopilot == InitAutopilot /\ [][NextAutopilot]_vars

\* calls of the mutator and of markTaskAsComplete with arguments that the
\* validation rejects, next to calls that pass
SpecReject == InitReject /\ [][NextReject]_vars

----------------------------------------------------------------------------
(* Vocabulary of the properties *)

LinesBefore == split(before)
LinesNow == split(tasksMd)

\* the last call was a markTaskComplete that returned
Marked == call.op = "markTaskComplete" /\ ~call.threw

\* the position of the checkbox character: right after the first "["
BoxPos(line) ==
  LET opens == {i \in 1..Len(line) : line[i] = "["}
  IN  IF opens = {} THEN 0 ELSE 1 + (CHOOSE i \in opens : \A k \in opens : i <= k)

\* two lines that agree everywhere but, possibly, at the checkbox character
SameButBox(l1, l2) ==
  /\ Len(l1) = Len(l2)
  /\ \A p \in 1..Len(l1) : p # BoxPos(l1) => l1[p] = l2[p]

\* the parser reads the line as a task with this id
IsTaskWithId(line, taskId) == taskRe(line).matched /\ taskRe(line).id = taskId

\* C1: markTaskComplete(file, id) keeps the number and order of lines, leaves
\* every line that is not a task line with that id byte-identical, and on a
\* task line with that id changes at most the checkbox character.
C1_OnlyCheckboxOfTaskWithId ==
  Marked =>
    /\ Len(LinesNow) = Len(LinesBefore)
    /\ \A i \in 1..Len(LinesBefore) :
         \/ LinesNow[i] = LinesBefore[i]
         \/ /\ IsTaskWithId(LinesBefore[i], call.taskId)
            /\ SameButBox(LinesBefore[i], LinesNow[i])

\* the indices of the task lines with the id of the last call
LinesWithId == {i \in 1..Len(LinesBefore) : IsTaskWithId(LinesBefore[i], call.taskId)}

HasCR(line) == \E p \in 1..Len(line) : line[p] = "\r"

UnknownIdCall ==
  /\ call.op \in {"markTaskComplete", "speckit_mark_task_complete"}
  /\ ~taskIdMissing(call.taskId)
  /\ LinesWithId = {}

\* C3: a call with a non-empty id that no task line carries succeeds and
\* leaves the checklist byte-identical; the tool reports success.
C3_UnknownIdIsSilentNoOp ==
  UnknownIdCall =>
    /\ ~call.threw
    /\ tasksMd = before
    /\ call.op = "speckit_mark_task_complete" => call.ret.success

\* the checkbox character of a line
BoxOf(line) == At(line, BoxPos(line))

C5_MarkThenParseRoundTrip ==
  LET a == parseTasksMd(before)
      b == parseTasksMd(tasksMd)
  IN  (Marked /\ \E k \in 1..Len(a) : a[k].id = call.taskId) =>
        /\ Len(b) = Len(a)
        /\ \A k \in 1..Len(a) :
             IF a[k].id = call.taskId
             THEN b[k] = [a[k] EXCEPT !.completed = TRUE]
             ELSE b[k] = a[k]
        /\ markTaskComplete(tasksMd, call.taskId) = tasksMd

\* C6: over any sequence of markTaskComplete calls the records keep their
\* number and ids, and a record parsed as completed before a call is parsed
\* as completed after it (before is the text the last call found).
C6_CompletedNeverShrinks ==
  LET a == parseTasksMd(before)
      b == parseTasksMd(tasksMd)
  IN  /\ Len(b) = Len(a)
      /\ \A k \in 1..Len(a) :
           /\ b[k].id = a[k].id
           /\ a[k].completed => b[k].completed

\* a call rewrote the checklist while a task completed earlier was on it
C6_Witness ==
  LET a == parseTasksMd(before)
      b == parseTasksMd(tasksMd)
  IN  /\ Marked
      /\ tasksMd # before
      /\ \E k \in 1..Len(a) : a[k].completed /\ a[k].id # call.taskId
      /\ \E k \in 1..Len(a) : ~a[k].completed /\ b[k].completed

----------------------------------------------------------------------------
(* The line shapes of the checklist format, stated position by position *)

AllIn(line, i, j, cls) == \A p \in i..j : line[p] \in cls

\* no line terminator from position i to position j
Text(line, i, j) == \A p \in i..j : line[p] \notin {"\n", "\r"}

\* the k-th smallest element of a set of numbers, and the set in order
Nth(S, k) == CHOOSE i \in S : Cardinality({j \in S : j < i}) = k - 1
Sorted(S) == [k \in 1..Cardinality(S) |-> Nth(S, k)]

\* "-" whitespace "[" marker "]" whitespace id: the pairs <<t, e>> of the
\* positions of the T and of the last digit of the id
IdSpan(line) ==
  LET n == Len(line)
      as == {a \in 3..n : /\ line[1] = "-"
                          /\ AllIn(line, 2, a - 1, WsSet)
                          /\ line[a] = "["
                          /\ At(line, a + 1) \in WsSet \cup {"x", "X"}
                          /\ At(line, a + 2) = "]"}
      ts(a) == {t \in (a + 4)..n : AllIn(line, a + 3, t - 1, WsSet) /\ line[t] = "T"}
      es(t) == {e \in (t + 1)..n : /\ AllIn(line, t + 1, e, DigitSet)
                                   /\ At(line, e + 1) \notin DigitSet}
  IN  UNION {UNION {{<<t, e>> : e \in es(t)} : t \in ts(a)} : a \in as}

\* a task line: the id, whitespace, then at least one character of text
TaskLineShape(line) ==
  \E te \in IdSpan(line) :
    \E f \in (te[2] + 2)..Len(line) :
      /\ AllIn(line, te[2] + 1, f - 1, WsSet)
      /\ Text(line, f, Len(line))

\* the id of a task line
LineId(line) ==
  LET te == CHOOSE x \in IdSpan(line) : TRUE
  IN  SubSeq(line, te[1], te[2])

\* "##" whitespace "Phase" whitespace digits, separators, free text: the
\* positions at which the free text can start
TitleStarts(line) ==
  LET n == Len(line)
      as == {a \in 4..n : /\ LitAt(line, 1, <<"#", "#">>)
                          /\ AllIn(line, 3, a - 1, WsSet)
                          /\ LitAtCI(line, a, <<"p", "h", "a", "s", "e">>)}
      ds(a) == {d \in (a + 6)..n : /\ AllIn(line, a + 5, d - 1, WsSet)
                                   /\ line[d] \in DigitSet}
      es(d) == {e \in d..n : AllIn(line, d, e, DigitSet) /\ At(line, e + 1) \in SepSet}
      fs(e) == {f \in (e + 2)..n : AllIn(line, e + 1, f - 1, SepSet) /\ Text(line, f, n)}
  IN  UNION {UNION {UNION {fs(e) : e \in es(d)} : d \in ds(a)} : a \in as}

PhaseHeadingShape(line) == TitleStarts(line) # {}

\* the title of a phase heading: what follows the separators, trimmed
TitleOf(line) == trim(SubSeq(line, Max(TitleStarts(line)), Len(line)))

\* the last call was a parseTasksMd
Parsed == call.op = "parseTasksMd"

\* the indices of the phase headings among the lines
HeadingIdx(lines) == {j \in 1..Len(lines) : PhaseHeadingShape(lines[j])}

\* the indices of the task lines among the lines, in document order
TaskLineIdx(lines) ==
  Sorted({i \in 1..Len(lines) : TaskLineShape(lines[i]) /\ ~PhaseHeadingShape(lines[i])})

\* C7: every record carries the trimmed title of the nearest phase heading
\* above its line, the empty string when there is none.
C7_PhaseIsNearestHeading ==
  LET lines == LinesNow
      idx == TaskLineIdx(lines)
      heads == HeadingIdx(lines)
  IN  Parsed =>
        /\ Len(call.ret) = Len(idx)
        /\ \A k \in 1..Len(call.ret) :
             LET above == {j \in heads : j < idx[k]}
             IN  call.ret[k].phase =
                   IF above = {} THEN <<>> ELSE TitleOf(lines[Max(above)])

\* a record below two phase headings with different titles
C7_Witness ==
  LET lines == LinesNow
      idx == TaskLineIdx(lines)
      heads == HeadingIdx(lines)
  IN  /\ Parsed
      /\ \E k \in 1..Len(call.ret) :
           LET above == {j \in heads : j < idx[k]}
           IN  /\ Cardinality(above) >= 2
               /\ \E j \in above : TitleOf(lines[j]) # call.ret[k].phase
               /\ call.ret[k].phase # <<>>

\* the text without its lines that are neither phase heading nor task line
WithoutOtherLines(lines) ==
  LET keep == Sorted({i \in 1..Len(lines) :
                        TaskLineShape(lines[i]) \/ PhaseHeadingShape(lines[i])})
  IN  join([j \in 1..Len(keep) |-> lines[keep[j]]])

\* C8: one record per task line, in document order, duplicates included, and
\* none for any other line; the lines that are neither heading nor task
\* change nothing, phase included: the records are those of the text without
\* them; the empty document yields the empty sequence.
C8_OneRecordPerTaskLine ==
  LET lines == LinesNow
      idx == TaskLineIdx(lines)
  IN  Parsed =>
        /\ ~call.threw
        /\ Len(call.ret) = Len(idx)
        /\ \A k \in 1..Len(call.ret) : call.ret[k].id = LineId(lines[idx[k]])
        /\ call.ret = parseTasksMd(WithoutOtherLines(lines))
        /\ tasksMd = <<>> => call.ret = <<>>

\* two records with one id around a line that is neither heading nor task
C8_Witness ==
  LET lines == LinesNow
      idx == TaskLineIdx(lines)
      heads == HeadingIdx(lines)
  IN  /\ Parsed
      /\ \E k \in 1..(Len(call.ret) - 1) :
           /\ call.ret[k].id = call.ret[k + 1].id
           /\ idx[k + 1] = idx[k] + 2
           /\ idx[k] + 1 \notin heads

\* the bracketed story tags of a line: the pairs <<i, j>> of the positions of
\* the "[" and the "]" around US and digits
StoryTags(line) ==
  {ij \in (1..Len(line)) \X (1..Len(line)) :
     /\ line[ij[1]] = "["
     /\ LitAt(line, ij[1] + 1, <<"U", "S">>)
     /\ ij[2] >= ij[1] + 4
     /\ AllIn(line, ij[1] + 3, ij[2] - 1, DigitSet)
     /\ line[ij[2]] = "]"}

TagText(line, ij) == SubSeq(line, ij[1] + 1, ij[2] - 1)

\* C9 as stated: parallel is true exactly when the line contains [P]; a line
\* that carries a story tag has that tag as story; a line with neither tag
\* has parallel false and story undefined.
C9_StoryWheneverTagged ==
  LET lines == LinesNow
      idx == TaskLineIdx(lines)
  IN  Parsed =>
        \A k \in 1..Len(call.ret) :
          LET line == lines[idx[k]]
              tags == StoryTags(line)
              hasP == includes(line, <<"[", "P", "]">>)
          IN  /\ call.ret[k].parallel = hasP
              /\ tags # {} => \E ij \in tags : call.ret[k].story = Some(TagText(line, ij))
              /\ (~hasP /\ tags = {}) =>
                   (~call.ret[k].parallel /\ call.ret[k].story = Undefined)

\* the story tags in tag position: after the id, or after the [P] that
\* follows the id, whitespace in between, and followed by whitespace and at
\* least one more character
TagsInPlace(line) ==
  LET n == Len(line)
      e == (CHOOSE x \in IdSpan(line) : TRUE)[2]
      afterP == {q + 3 : q \in {q \in (e + 2)..n :
                   AllIn(line, e + 1, q - 1, WsSet) /\ LitAt(line, q, <<"[", "P", "]">>)}}
  IN  {ij \in StoryTags(line) :
         /\ \E from \in {e + 1} \cup afterP :
              ij[1] > from /\ AllIn(line, from, ij[1] - 1, WsSet)
         /\ \E f \in (ij[2] + 2)..n :
              AllIn(line, ij[2] + 1, f - 1, WsSet) /\ Text(line, f, n)}

\* C9 amended: parallel is true exactly when the line contains [P]; story is
\* the story tag when the tag stands in tag position (after the id or after
\* the id's [P], followed by whitespace and more text) and undefined
\* otherwise, also when the line carries the tag elsewhere.
C9_StoryFromTagPosition ==
  LET lines == LinesNow
      idx == TaskLineIdx(lines)
  IN  Parsed =>
        \A k \in 1..Len(call.ret) :
          LET line == lines[idx[k]]
              inPlace == TagsInPlace(line)
              hasP == includes(line, <<"[", "P", "]">>)
          IN  /\ call.ret[k].parallel = hasP
              /\ inPlace # {} =>
                   \E ij \in inPlace : call.ret[k].story = Some(TagText(line, ij))
              /\ inPlace = {} => call.ret[k].story = Undefined
              /\ (~hasP /\ StoryTags(line) = {}) =>
                   (~call.ret[k].parallel /\ call.ret[k].story = Undefined)

\* one record takes its story from the tag behind [P], another carries a tag
\* and has no story
C9_Witness ==
  LET lines == LinesNow
      idx == TaskLineIdx(lines)
  IN  /\ Parsed
      /\ \E k \in 1..Len(call.ret) :
           call.ret[k].parallel /\ call.ret[k].story = Some(<<"U", "S", "1">>)
      /\ \E k \in 1..Len(call.ret) :
           StoryTags(lines[idx[k]]) # {} /\ call.ret[k].story = Undefined

\* the records of the task lines whose checkbox is neither x nor X
OpenRecords ==
  LET lines == LinesNow
      idx == TaskLineIdx(lines)
      all == parseTasksMd(tasksMd)
      keep == Sorted({k \in 1..Len(all) : BoxOf(lines[idx[k]]) \notin {"x", "X"}})
  IN  [j \in 1..Len(keep) |-> all[keep[j]]]

\* C10: a record is completed exactly when the checkbox of its line is x or
\* X, and getIncompleteTasks returns the records of the other task lines, in
\* document order.
C10_IncompleteAreUnchecked ==
  LET lines == LinesNow
      idx == TaskLineIdx(lines)
  IN  /\ Parsed =>
           \A k \in 1..Len(call.ret) :
             call.ret[k].completed <=> BoxOf(lines[idx[k]]) \in {"x", "X"}
      /\ call.op = "getIncompleteTasks" =>
           /\ ~call.threw
           /\ call.ret = OpenRecords
           /\ \A k \in 1..Len(call.ret) : ~call.ret[k].completed

\* getIncompleteTasks left out an x line and an X line and kept another
C10_Witness ==
  LET lines == LinesNow
      idx == TaskLineIdx(lines)
  IN  /\ call.op = "getIncompleteTasks"
      /\ Len(call.ret) >= 1
      /\ \E k \in 1..Len(idx) : BoxOf(lines[idx[k]]) = "x"
      /\ \E k \in 1..Len(idx) : BoxOf(lines[idx[k]]) = "X"

----------------------------------------------------------------------------
(* Rejected arguments *)

\* the last call is one the validation has to reject: a missing task id,
\* or a missing file path handed to markTaskComplete
RejectedCall ==
  \/ /\ call.op \in {"markTaskComplete", "markTaskAsComplete"}
     /\ taskIdMissing(call.taskId)
  \/ /\ call.op = "markTaskComplete"
     /\ call.filePath = ""

\* C11: markTaskComplete and markTaskAsComplete called with an empty,
\* whitespace-only or undefined task id, and markTaskComplete called with a
\* missing file path, throw the validation error, whether tasks.md is there
\* to be read or not, and leave the checklist and the workflow state as
\* they were.
C11_RejectedBeforeAnyIO ==
  RejectedCall =>
    /\ call.threw
    /\ call.ret \in {"Task ID is required", "File path is required"}
    /\ tasksMd = before
    /\ stateFile = stateBefore

\* markTaskAsComplete was refused a whitespace-only id, on a checklist with
\* an open task and a workflow state already stored
C11_Witness ==
  /\ call.op = "markTaskAsComplete"
  /\ call.taskId = <<" ">>
  /\ call.threw
  /\ TasksPath \in files
  /\ stateFile.kind = "json"
  /\ \E i \in 1..Len(LinesNow) :
       TaskLineShape(LinesNow[i]) /\ BoxOf(LinesNow[i]) = " "

----------------------------------------------------------------------------
(* The workflow state store, one call at a time *)

\* the last call was an update of the state store
Updated == call.op = "updateWorkflowState"

\* the state stored now, and the state the last call found (a fresh one when
\* it found none)
StateNow == stateFile.state
StepStatusFound ==
  IF stateBefore.kind = "json" THEN stateBefore.state.stepStatus ELSE <<>>

\* the entry of the updated step before the update
EntryFound ==
  IF call.step \in DOMAIN StepStatusFound THEN StepStatusFound[call.step]
  ELSE <<>>

\* C12 (as stated): after updateWorkflowState(featureDir, step, data) every
\* key of the previous stepStatus[step] that data lacks keeps its value and
\* every key of data holds the value data gave it.
C12_EveryDataKeyTakesNewValue ==
  Updated =>
    LET entry == StateNow.stepStatus[call.step]
    IN  /\ \A k \in DOMAIN EntryFound \ DOMAIN call.stepData :
             k \in DOMAIN entry /\ entry[k] = EntryFound[k]
        /\ \A k \in DOMAIN call.stepData :
             k \in DOMAIN entry /\ entry[k] = call.stepData[k]

\* C12 (amended): after updateWorkflowState(featureDir, step, data) the
\* entry of step has the keys of the previous entry, the keys of data and
\* completed; completed is true whatever data says, every other key of data
\* holds the value data gave it, and every other key that data lacks keeps
\* its previous value.
C12_ShallowMergeButCompleted ==
  Updated =>
    LET entry == StateNow.stepStatus[call.step]
    IN  /\ DOMAIN entry =
             DOMAIN EntryFound \cup DOMAIN call.stepData \cup {"completed"}
        /\ entry.completed = TRUE
        /\ \A k \in DOMAIN call.stepData \ {"completed"} :
             entry[k] = call.stepData[k]
        /\ \A k \in DOMAIN EntryFound \ (DOMAIN call.stepData \cup {"completed"}) :
             entry[k] = EntryFound[k]

\* update(plan, {planPath}) was followed by update(plan, {artifacts}): the
\* entry of plan holds both, and completed
C12_Witness ==
  /\ Updated
  /\ call.step = "plan"
  /\ call.stepData = [artifacts |-> <<"/b">>]
  /\ "plan" \in DOMAIN StepStatusFound
  /\ StepStatusFound["plan"] = [completed |-> TRUE, planPath |-> "/a"]
  /\ StateNow.stepStatus["plan"] =
       [completed |-> TRUE, planPath |-> "/a", artifacts |-> <<"/b">>]

\* C13: currentStep is the step of the most recent update, or specify when
\* the most recent write was an initialize (a read in between changes
\* nothing); an update is accepted for every step from every current step.
C13_CurrentStepIsLastUpdate ==
  /\ Updated => ~call.threw /\ StateNow.currentStep = call.step
  /\ call.op = "initWorkflowState" => StateNow.currentStep = "specify"
  /\ call.op = "getWorkflowState" => stateFile = stateBefore

\* an update of an earlier step after a later one moved currentStep backwards
C13_Witness ==
  /\ Updated
  /\ stateBefore.kind = "json"
  /\ stateBefore.state.currentStep = "tasks"
  /\ call.step = "plan"
  /\ StateNow.currentStep = "plan"

\* C14: in every state reached by initWorkflowState and updateWorkflowState
\* calls, every entry of stepStatus has completed = true.
C14_EveryEntryCompleted ==
  stateFile.kind = "json" =>
    \A step \in DOMAIN StateNow.stepStatus :
      /\ "completed" \in DOMAIN StateNow.stepStatus[step]
      /\ StateNow.stepStatus[step].completed = TRUE

\* an update whose data carried completed = false stored completed = true,
\* next to the entry of another step
C14_Witness ==
  /\ Updated
  /\ call.stepData = [completed |-> FALSE]
  /\ StateNow.stepStatus[call.step].completed = TRUE
  /\ Cardinality(DOMAIN StateNow.stepStatus) > 1

\* C15: initWorkflowState(featureDir, description) leaves exactly the record
\* {featureDir, currentStep = specify, stepStatus empty, featureDescription =
\* description, startedAt = the time of the call}, whatever was stored
\* before, and returns it.
C15_InitializeResets ==
  call.op = "initWorkflowState" =>
    /\ stateFile.kind = "json"
    /\ StateNow.featureDir = FeatureDir
    /\ StateNow.currentStep = "specify"
    /\ DOMAIN StateNow.stepStatus = {}
    /\ DOMAIN StateNow.metadata = {"startedAt", "featureDescription"}
    /\ StateNow.metadata.featureDescription = call.featureDescription
    /\ StateNow.metadata.startedAt = call.now
    /\ call.ret = StateNow

\* an initialize replaced a state that had step entries, another current
\* step, another description and another start time
C15_Witness ==
  /\ call.op = "initWorkflowState"
  /\ stateBefore.kind = "json"
  /\ DOMAIN stateBefore.state.stepStatus # {}
  /\ stateBefore.state.currentStep # "specify"
  /\ stateBefore.state.metadata.featureDescription # call.featureDescription
  /\ stateBefore.state.metadata.startedAt # call.now
  /\ DOMAIN StateNow.stepStatus = {}

\* C16: getWorkflowState never raises; it returns null when there is no
\* state file and when the file does not hold JSON, and the stored state
\* otherwise; the file is left as it was.
C16_ReadNeverRaises ==
  call.op = "getWorkflowState" =>
    /\ ~call.threw
    /\ stateBefore.kind \in {"absent", "corrupt"} => call.ret = Undefined
    /\ stateBefore.kind = "json" => call.ret = Some(stateBefore.state)
    /\ stateFile = stateBefore

\* a read of a state file that does not hold JSON returned null
C16_Witness ==
  /\ call.op = "getWorkflowState"
  /\ stateBefore.kind = "corrupt"
  /\ ~call.threw
  /\ call.ret = Undefined

\* C17: updateWorkflowState on a directory whose state is absent or does not
\* parse stores a fresh state with the update applied: currentStep = step,
\* stepStatus holding step alone (data, with completed = true), an empty
\* description and the time of the call.
C17_UpdateInitializesWhenAbsent ==
  (Updated /\ stateBefore.kind \in {"absent", "corrupt"}) =>
    /\ stateFile.kind = "json"
    /\ StateNow.featureDir = FeatureDir
    /\ StateNow.currentStep = call.step
    /\ DOMAIN StateNow.stepStatus = {call.step}
    /\ StateNow.stepStatus[call.step] = [completed |-> TRUE] @@ call.stepData
    /\ StateNow.metadata = [startedAt |-> call.now, featureDescription |-> ""]
    /\ call.ret = StateNow

\* an update found a state file that does not hold JSON and stored a state
\* with its own step alone
C17_Witness ==
  /\ Updated
  /\ stateBefore.kind = "corrupt"
  /\ call.step = "tasks"
  /\ call.stepData = [planPath |-> "/a"]
  /\ StateNow.stepStatus = ("tasks" :> [completed |-> TRUE, planPath |-> "/a"])

----------------------------------------------------------------------------
(* Racing calls *)

\* both callers have returned from updateWorkflowState calls for two
\* different steps
BothUpdated == AllDone /\ inFlight[1].step # inFlight[2].step

\* C18: when two updateWorkflowState calls for different steps race, the
\* state file in the end holds exactly the document of the call that wrote
\* last.
C18_FinalIsLastWritersDocument ==
  BothUpdated => stateFile = setWorkflowState(call.ret)

\* both callers have returned from markTaskComplete calls for two different
\* ids, each having read the checklist as it was before either wrote
BothMarkedFromSameText ==
  /\ AllDone
  /\ \A c \in Callers : ~inFlight[c].threw /\ inFlight[c].content = before
  /\ inFlight[1].taskId # inFlight[2].taskId

\* C19: when two markTaskComplete calls for different ids both read the
\* checklist before either writes, neither call reports an error and the
\* checklist in the end is the initial text with the mark of the call that
\* wrote last, and without the mark of the other.
C19_EarlierMarkLostSilently ==
  BothMarkedFromSameText =>
    /\ tasksMd = call.ret
    /\ tasksMd = markTaskComplete(before, inFlight[call.caller].taskId)

\* T1 and T2 were both open; both calls returned without error and only the
\* line of the call that wrote last is marked
C19_Witness ==
  /\ BothMarkedFromSameText
  /\ {inFlight[1].taskId, inFlight[2].taskId} = {T1, T2}
  /\ \E i, k \in 1..Len(LinesBefore) :
       /\ IsTaskWithId(LinesBefore[i], inFlight[call.caller].taskId)
       /\ IsTaskWithId(LinesBefore[k], inFlight[3 - call.caller].taskId)
       /\ BoxOf(LinesBefore[i]) = " " /\ BoxOf(LinesBefore[k]) = " "
       /\ BoxOf(LinesNow[i]) = "X" /\ BoxOf(LinesNow[k]) = " "

----------------------------------------------------------------------------
(* The step tools *)

StepTools == {"speckitSpecify", "speckitClarify", "speckitPlan",
              "speckitTasks", "speckitImplement", "speckitReview"}

\* C20: a step tool that returns leaves the workflow state with currentStep
\* equal to its step and stepStatus[its step].completed = true.
C20_StepToolMarksItsStep ==
  (call.op \in StepTools /\ ~call.threw) =>
    /\ stateFile.kind = "json"
    /\ StateNow.currentStep = call.step
    /\ call.step \in DOMAIN StateNow.stepStatus
    /\ StateNow.stepStatus[call.step].completed = TRUE

----------------------------------------------------------------------------
(* C21: within one caller's sequential use, getWorkflowState after
   setWorkflowState(s), initWorkflowState or updateWorkflowState returns a
   state equal to the one that call wrote or returned, and a second read with
   no write in between returns the same state. Equal is equal as JSON
   documents: the same members with the same values, a member whose value is
   undefined counting as no member. *)

\* the value of member k of an object, Undefined when it has none or holds
\* undefined
MemberOf(object, k) ==
  IF k \in DOMAIN object /\ ~(k \in StringKeys /\ object[k] = undefined)
  THEN Some(object[k]) ELSE Undefined

SameObject(a, b) ==
  \A k \in DOMAIN a \cup DOMAIN b : MemberOf(a, k) = MemberOf(b, k)

SameDocument(a, b) ==
  /\ a.featureDir = b.featureDir
  /\ a.currentStep = b.currentStep
  /\ DOMAIN a.stepStatus = DOMAIN b.stepStatus
  /\ \A s \in DOMAIN a.stepStatus :
       SameObject(a.stepStatus[s], b.stepStatus[s])
  /\ SameObject(a.metadata, b.metadata)

WriteOps == {"setWorkflowState", "initWorkflowState", "updateWorkflowState"}
Wrote == IF call.op = "setWorkflowState" THEN call.state ELSE call.ret

C21_ReadBackStep ==
  call'.op = "getWorkflowState" =>
    /\ call.op \in WriteOps =>
         /\ call'.ret # Undefined
         /\ SameDocument(call'.ret[1], Wrote)
    /\ call.op = "getWorkflowState" => call'.ret = call.ret

----------------------------------------------------------------------------
(* C22: a pipeline tool invoked before its prerequisite artifact exists fails
   with an error and leaves the workflow state unchanged: speckitClarify and
   speckitPlan without spec.md, speckitTasks without plan.md,
   speckitImplement without tasks.md. No tool makes its own prerequisite, so
   an artifact missing after the call was missing when it was made. *)

Prerequisite ==
  [speckitClarify |-> SpecPath, speckitPlan |-> SpecPath,
   speckitTasks |-> PlanPath, speckitImplement |-> TasksPath]

CalledTooEarly ==
  /\ call.op \in DOMAIN Prerequisite
  /\ Prerequisite[call.op] \notin files

C22_TooEarlyFailsAndKeepsState ==
  CalledTooEarly =>
    /\ call.threw
    /\ stateFile = stateBefore
    /\ tasksMd = before

\* speckitTasks called after speckitSpecify only: there is a state to keep
C22_Witness ==
  /\ CalledTooEarly
  /\ call.op = "speckitTasks"
  /\ SpecPath \in files
  /\ stateFile.kind = "json"

----------------------------------------------------------------------------
(* C23: speckitAutopilot never throws: if any step (specify, clarify, plan,
   tasks, implement, review) fails, no later step is executed and it returns
   a result with success=false and a message naming the failure, keeping the
   step results recorded before the failure. *)

AutopilotReturned == inFlight.pc = "returned"
Result == inFlight.result
Executed == inFlight.executed
LastExecuted == Executed[Len(Executed)]

\* the last step tool called by the call in flight threw
StepThrown ==
  /\ inFlight.pc # "idle"
  /\ Executed # <<>>
  /\ call.threw

\* a step is recorded as not successful
StepUnsuccessful(step) ==
  /\ step \in DOMAIN Result.steps
  /\ ~Result.steps[step].success

\* as stated, with a step that reports success=false counted as failed:
\* whenever a step threw or is recorded unsuccessful, the call has failed
C23_AnyFailureFailsTheCall ==
  (AutopilotReturned /\ (StepThrown \/ \E step \in Steps : StepUnsuccessful(step)))
    => ~Result.success

\* the messages that name what was thrown
FailureMessages(thrown) ==
  {"Autopilot workflow failed: " \o thrown,
   "Autopilot workflow failed: Plan step failed: " \o thrown}

\* amended: a step that throws ends the call at once, with success=false, a
\* message naming what was thrown, the failing step as the last one executed
\* and a record of every step executed before it; the call has success=false
\* only in that way; a review whose build status is fail is no such failure:
\* it is recorded with success=false in a result that has success=true
C23_ThrowFailsTheCall ==
  /\ StepThrown =>
       /\ AutopilotReturned
       /\ ~Result.success
       /\ Result.message \in FailureMessages(call.ret)
       /\ LastExecuted = call.step
       /\ \A i \in 1..(Len(Executed) - 1) :
            /\ Executed[i] \in DOMAIN Result.steps
            /\ Result.steps[Executed[i]].success
  /\ (AutopilotReturned /\ ~StepThrown) =>
       /\ Result.success
       /\ \A step \in DOMAIN Result.steps :
            ~Result.steps[step].success =>
              step = "review" /\ Result.steps[step].needsFixes

\* speckitTasks throws after specify, clarify and plan were recorded
C23_Witness ==
  /\ AutopilotReturned
  /\ StepThrown
  /\ call.step = "tasks"
  /\ DOMAIN Result.steps = {"specify", "clarify", "plan"}

----------------------------------------------------------------------------
(* C24: parseTasksMd and getIncompleteTasks are read-only and deterministic:
   they never change the checklist file or the workflow state, any number of
   them may run concurrently with each other, and two calls on the same
   checklist text return equal sequences. *)

ParseDone(c) == inFlight[c].pc = "done"

----------------------------------------------------------------------------
(* C25: after a markTaskAsComplete(featureDir, id) call by a single
   sequential caller returns, the workflow state has currentStep=implement,
   stepStatus.implement.tasksCompleted equal to the number of completed
   records and totalTasks equal to the number of records that parseTasksMd
   yields for the checklist at that moment, with tasksCompleted <=
   totalTasks. *)

MarkedAsComplete == call.op = "markTaskAsComplete" /\ ~call.threw

C25_CountsMatchTheChecklist ==
  MarkedAsComplete =>
    /\ stateFile.kind = "json"
    /\ StateNow.currentStep = "implement"
    /\ "implement" \in DOMAIN StateNow.stepStatus
    /\ LET entry == StateNow.stepStatus["implement"]
           tasks == parseTasksMd(tasksMd)
       IN  /\ entry.tasksCompleted =
                Cardinality({i \in 1..Len(tasks) : tasks[i].completed})
           /\ entry.totalTasks = Len(tasks)
           /\ entry.tasksCompleted <= entry.totalTasks

\* a call that ticked a box, on a state that held the counts of an earlier
\* call
C25_Witness ==
  /\ MarkedAsComplete
  /\ tasksMd # before
  /\ stateBefore.kind = "json"
  /\ "implement" \in DOMAIN stateBefore.state.stepStatus
  /\ StateNow.stepStatus["implement"].tasksCompleted >
       stateBefore.state.stepStatus["implement"].tasksCompleted
  /\ StateNow.stepStatus["implement"].totalTasks >= 2

----------------------------------------------------------------------------
(* C27: updateWorkflowState(featureDir, step, data) on an existing valid
   state changes only currentStep and stepStatus[step]: featureDir, metadata
   (startedAt, featureDescription) and the stepStatus entry of every other
   step are unchanged, so featureDir stays what initialize set across any
   sequence of updates. *)

UpdatedExisting == Updated /\ stateBefore.kind = "json"
StateFound == stateBefore.state

C27_UpdateTouchesOnlyItsStep ==
  /\ UpdatedExisting =>
       /\ stateFile.kind = "json"
       /\ StateNow.featureDir = StateFound.featureDir
       /\ StateNow.metadata = StateFound.metadata
       /\ DOMAIN StateNow.stepStatus =
            DOMAIN StateFound.stepStatus \cup {call.step}
       /\ \A s \in DOMAIN StateFound.stepStatus \ {call.step} :
            StateNow.stepStatus[s] = StateFound.stepStatus[s]
  /\ stateFile.kind = "json" => StateNow.featureDir = FeatureDir

\* an update of plan on a state that holds a description and the entry of
\* specify, and whose currentStep it changes
C27_Witness ==
  /\ UpdatedExisting
  /\ call.step = "plan"
  /\ StateFound.currentStep # "plan"
  /\ "specify" \in DOMAIN StateFound.stepStatus
  /\ "plan" \notin DOMAIN StateFound.stepStatus
  /\ StateFound.metadata.featureDescription = "Test feature"

----------------------------------------------------------------------------
(* C28: the mutator and the parser agree on what a task line is:
   markTaskComplete(file, id) rewrites a line only if parseTasksMd recognises
   that same line as a task record whose id equals id, so a line the parser
   skips is never altered, and a target id that is a proper prefix of a
   line's id never matches that line. *)

\* the mutator takes the line for a task with this id
MutatorMatches(line, taskId) ==
  markRe(line).matched /\ markRe(line).g4 = taskId

C28_MutatorMatchesOnlyParsedTasks ==
  Marked =>
    \A i \in 1..Len(LinesBefore) :
      MutatorMatches(LinesBefore[i], call.taskId) =>
        IsTaskWithId(LinesBefore[i], call.taskId)

----------------------------------------------------------------------------
(* C29: the taskCount that speckitTasks returns and stores in
   stepStatus.tasks equals the number of records parseTasksMd yields for the
   tasks.md it has just written, for every template content. *)

TasksWritten == call.op = "speckitTasks" /\ ~call.threw

C29_TaskCountIsParsedCount ==
  TasksWritten =>
    /\ call.ret.taskCount = Len(parseTasksMd(tasksMd))
    /\ StateNow.stepStatus["tasks"].taskCount = Len(parseTasksMd(tasksMd))

----------------------------------------------------------------------------
(* C26: speckitAutopilot runs its steps in the fixed order specify, clarify,
   plan, tasks, implement, review, each at most once per call: clarify is
   executed only when skipClarify is false, and review is executed only when
   skipReview is false and the checklist has no incomplete task after the
   implement step; when incomplete tasks remain, review is not run and the
   result reports needsImplementation=true. *)

InAutopilot == inFlight.pc # "idle"
WasExecuted(step) == \E i \in 1..Len(Executed) : Executed[i] = step
IncompleteNow == Len(getIncompleteTasks(tasksMd))

C26_StepsInOrderAndOnCondition ==
  InAutopilot =>
    /\ \A i, j \in 1..Len(Executed) :
         i < j => StepIndex(Executed[i]) < StepIndex(Executed[j])
    /\ WasExecuted("clarify") => ~inFlight.options.skipClarify
    /\ WasExecuted("review") =>
         /\ ~inFlight.options.skipReview
         /\ WasExecuted("implement")
         /\ IncompleteNow = 0
    /\ (AutopilotReturned /\ Result.success) =>
         /\ {"specify", "plan", "tasks", "implement"} \subseteq
              {Executed[i] : i \in 1..Len(Executed)}
         /\ Result.steps["implement"].needsImplementation = (IncompleteNow > 0)
         /\ IncompleteNow > 0 => ~WasExecuted("review")

\* a call that ran all six steps and returned
C26_Witness ==
  /\ InAutopilot
  /\ AutopilotReturned
  /\ Result.success
  /\ Executed = <<"specify", "clarify", "plan", "tasks", "implement", "review">>

----------------------------------------------------------------------------
(* C30: across any sequential sequence of speckitTasks, speckitImplement and
   markTaskAsComplete calls on one feature directory, a task that has been
   marked complete in tasks.md is still marked complete afterwards:
   re-running speckitTasks does not discard completion marks already
   recorded in the checklist. *)

\* the ids of the records of a checklist that are complete
CompletedIds(content) ==
  LET tasks == parseTasksMd(content)
  IN  {tasks[i].id : i \in {j \in 1..Len(tasks) : tasks[j].completed}}

ChecklistTools == {"speckitTasks", "speckitImplement", "markTaskAsComplete"}

C30_CompletedStaysCompleted ==
  call.op \in ChecklistTools =>
    CompletedIds(before) \subseteq CompletedIds(tasksMd)

====
